---- MODULE Spec2Model ----
(***************************************************************************)
(* Deadline-aware OFDMA scheduling (DaMultiUserScheduler) and the          *)
(* standalone min-cost-flow solver of wifi-dev-ofdma.                      *)
(*                                                                         *)
(* Stations carry the code's 0-based ids (aid - 1); m_staPacketInfo is the *)
(* sequence of <<period, deadline, penalty>> triples, station i being its  *)
(* element i + 1.  m_packetSchedule is a sequence too: the code's entry p  *)
(* is element p + 1 (see Entry).  RU types are written as tone counts.     *)
(*                                                                         *)
(* The engine is modelled under the configuration of scratch/wifi-dl-da.cc:*)
(* EnableUlOfdma = false, ForceDlOfdma = true, A-MPDU aggregation off (one *)
(* MPDU per station per PPDU), every station with a queued frame is a      *)
(* candidate and a PPDU handed to the transmission layer leaves the queue. *)
(* m_candidates is kept only between TrySendingDlMuPpdu and the            *)
(* ComputeDlMuInfo that follows it: the next TrySendingDlMuPpdu clears the *)
(* list before reading it, and its only other reader, TrySendingBasicTf,  *)
(* is off in this configuration.  The history variables generated and     *)
(* decided describe the latest call and are reset by the next event.      *)
(*                                                                         *)
(* Spec is the scheduler driven by the 1 ms round timer and by transmit    *)
(* opportunities, which the code does not couple to each other.            *)
(* SolverSpec runs the solvers on their own: MaximumWeightedMatching and   *)
(* ILPSolver on generated schedules, and the standalone min-cost-flow      *)
(* program on its command line (variable bench).  The integer program the  *)
(* engine calls is an external process; DeadlineAwareILP states what it    *)
(* must return.  SizingSpec evaluates the RU sizing functions on their own. *)
(*                                                                         *)
(* DrrSpec is the deadline round-robin scheduler (DrrMultiUserScheduler),  *)
(* whose rounds are opened by its ComputeDlMuInfo; SchedulersSpec is       *)
(* whichever scheduler the driver installs.  UnsupportedWidthSpec is the   *)
(* engine on a channel width it has no case for, StartupSpec the driver's  *)
(* start-up for any periods, 0 included.                                   *)
(*                                                                         *)
(* FaultyHostSpec is the engine on a host where the external process can   *)
(* fail and ilp.output is what the last run left.  AgreementSpec and       *)
(* ScenarioSpec give one input to MaximumWeightedMatching and to the       *)
(* standalone program, SameRoundSpec gives the program packets that share  *)
(* one deadline round, LcmSpec steps through LCM.  ExperimentSpec runs the *)
(* driver twice on one station set, with DRR and then with DA, and counts  *)
(* the packets each run drops.  DenseSpec is the engine at 20 MHz with up  *)
(* to MaxDenseStations stations.                                           *)
(***************************************************************************)
EXTENDS Integers, Sequences, FiniteSets, TLC

\* ------------------------------------------------------------------ bounds
MaxStations == 2
MaxPeriod == 2
MaxPenalty == 1
MaxQueue == 2
MaxHorizons == 1        \* solver runs start at round 0 .. MaxHorizons horizons
MaxSolves == 2          \* solves of one input
MaxMcfRounds == 2
MaxMcfPackets == 3
MaxWeight == 2          \* penalties on the standalone tool's command line
MinRuTypeIndex == 3     \* smallest ruType index given to the standalone tool
MaxFaults == 1          \* failed runs of the external process in one simulation

\* ------------------------------------------------------- program constants
RoundLimit == 60

RU_26_TONE == 26
RU_52_TONE == 52
RU_106_TONE == 106
RU_242_TONE == 242
RU_484_TONE == 484

\* NS_FATAL_ERROR: the function returns no value
FATAL == -1

\* ---------------------------------------------------------------- helpers
Range(f) == {f[x] : x \in DOMAIN f}

EmptyMap == [x \in {} |-> 0]

RECURSIVE SumOver(_, _)
SumOver(S, f) ==
  IF S = {} THEN 0
  ELSE LET x == CHOOSE y \in S : TRUE IN f[x] + SumOver(S \ {x}, f)

RECURSIVE Product(_)
Product(arr) == IF arr = <<>> THEN 1 ELSE Head(arr) * Product(Tail(arr))

MaxOf(arr) ==
  IF arr = <<>> THEN 0
  ELSE CHOOSE m \in Range(arr) \cup {0} : \A j \in 1..Len(arr) : arr[j] <= m

\* ------------------------------------------------------------ station data
Period(info, i) == info[i + 1][1]
Deadline(info, i) == info[i + 1][2]
Penalty(info, i) == info[i + 1][3]
NStations(info) == Len(info)
Stations(info) == 0..(Len(info) - 1)

\* LCM(): x runs from 2 to the maximum found at entry; a factor shared by two
\* or more elements is divided out of them and multiplied into res
RECURSIVE LCMReduce(_, _, _, _)
LCMReduce(arr, x, res, max_num) ==
  IF x > max_num THEN res * Product(arr)
  ELSE LET indexes == {j \in 1..Len(arr) : arr[j] % x = 0} IN
       IF Cardinality(indexes) >= 2
       THEN LCMReduce([j \in 1..Len(arr) |->
                         IF j \in indexes THEN arr[j] \div x ELSE arr[j]],
                      x, res * x, max_num)
       ELSE LCMReduce(arr, x + 1, res, max_num)

LCM(arr) == LCMReduce(arr, 2, 1, MaxOf(arr))

GetRoundsPerSchedule(info) == LCM([j \in 1..Len(info) |-> info[j][1]])

GetPacketsPerSchedule(info) ==
  SumOver(Stations(info),
          [i \in Stations(info) |-> GetRoundsPerSchedule(info) \div Period(info, i)])

PacketsOfUser_FromRoundZero(info, i, r0) ==
  [j \in 1..(GetRoundsPerSchedule(info) \div Period(info, i)) |->
     <<(j - 1) * Period(info, i),
       (j - 1) * Period(info, i) + Deadline(info, i),
       Penalty(info, i),
       i>>]

\* the entries one station contributes, in the order they are pushed
PacketsOfUser(info, i, r0) ==
  [j \in 1..(GetRoundsPerSchedule(info) \div Period(info, i)) |->
     <<r0 + (j - 1) * Period(info, i),
       r0 + (j - 1) * Period(info, i) + Deadline(info, i),
       Penalty(info, i),
       i>>]

RECURSIVE GenerateFrom(_, _, _)
GenerateFrom(info, i, r0) ==
  IF i >= NStations(info) THEN <<>>
  ELSE PacketsOfUser(info, i, r0) \o GenerateFrom(info, i + 1, r0)

GeneratePacketScheduleForSetRounds(info, r0) == GenerateFrom(info, 0, r0)

\* m_packetSchedule[p] of the code
Entry(sched, p) == sched[p + 1]
PacketIndices(sched) == 0..(Len(sched) - 1)

\* ---------------------------------------------------------------- RU sizing
GetRuTypePerRound(bw, packetsPerSchedule) ==
  IF bw = 20 THEN
    IF packetsPerSchedule = 1 THEN RU_242_TONE
    ELSE IF packetsPerSchedule = 2 THEN RU_106_TONE
    ELSE IF packetsPerSchedule >= 3 /\ packetsPerSchedule <= 4 THEN RU_52_TONE
    ELSE RU_26_TONE
  ELSE IF bw = 40 THEN
    IF packetsPerSchedule = 1 THEN RU_484_TONE
    ELSE IF packetsPerSchedule = 2 THEN RU_242_TONE
    ELSE IF packetsPerSchedule >= 3 /\ packetsPerSchedule <= 4 THEN RU_106_TONE
    ELSE IF packetsPerSchedule >= 5 /\ packetsPerSchedule <= 8 THEN RU_52_TONE
    ELSE RU_26_TONE
  ELSE FATAL

\* case 40 of the switch; also reached by falling through case 20
RusPerRound40(ruType) ==
  IF ruType = RU_484_TONE THEN 1
  ELSE IF ruType = RU_242_TONE THEN 2
  ELSE IF ruType = RU_106_TONE THEN 4
  ELSE IF ruType = RU_52_TONE THEN 8
  ELSE IF ruType = RU_26_TONE THEN 18
  ELSE FATAL

GetRusPerRound_Of40(bw, ruType) == RusPerRound40(ruType)

GetRusPerRound(bw, ruType) ==
  IF bw = 20 THEN
    IF ruType = RU_242_TONE THEN 1
    ELSE IF ruType = RU_106_TONE THEN 2
    ELSE IF ruType = RU_52_TONE THEN 4
    ELSE IF ruType = RU_26_TONE THEN 9
    ELSE RusPerRound40(ruType)
  ELSE IF bw = 40 THEN RusPerRound40(ruType)
  ELSE FATAL

\* ------------------------------------------------------- assignment solver
\* total penalty of the packets a map serves
MapWeight(sched, m) == SumOver(DOMAIN m, [p \in DOMAIN m |-> Entry(sched, p)[3]])

MatchingsOf_SharedSlots(edges) ==
  LET L == {e[1] : e \in edges}
      R == {e[2] : e \in edges}
  IN {m \in UNION {[D -> R] : D \in SUBSET L} :
        \A i \in DOMAIN m : <<i, m[i]>> \in edges}

\* the partial injective maps from left vertices to right vertices along edges
MatchingsOf(edges) ==
  LET L == {e[1] : e \in edges}
      R == {e[2] : e \in edges}
  IN {m \in UNION {[D -> R] : D \in SUBSET L} :
        /\ \A i \in DOMAIN m : <<i, m[i]>> \in edges
        /\ \A i, k \in DOMAIN m : i # k => m[i] # m[k]}

EdgeWeightSum(m, w) == SumOver(DOMAIN m, [i \in DOMAIN m |-> w[i]])

MaximumWeightMatchings_AnyMatching(edges, w) == MatchingsOf(edges)

\* boost::maximum_weighted_matching: some matching of maximum total weight
MaximumWeightMatchings(edges, w) ==
  LET M == MatchingsOf(edges)
      W == {EdgeWeightSum(o, w) : o \in M}
      best == CHOOSE x \in W : \A y \in W : y <= x
  IN {m \in M : EdgeWeightSum(m, w) = best}

GetRoundFromVertexIndex_NoOffset(vj, packets, rus, currRound) ==
  (vj - packets) \div rus

GetRoundFromVertexIndex_DividesByPackets(vj, packets, rus, currRound) ==
  ((vj - packets) \div packets) + currRound

GetRoundFromVertexIndex(vj, packets, rus, currRound) ==
  ((vj - packets) \div rus) + currRound

\* the edges MaximumWeightedMatching adds: packet i to every RU vertex of every
\* round j of the horizon inside the packet's window
MwmEdges(sched, rounds, rus, currRound) ==
  LET packets == Len(sched) IN
  UNION {
    IF j >= Entry(sched, i)[1] /\ j <= Entry(sched, i)[2]
    THEN LET firstIndex == packets + ((j - currRound) * rus)
         IN {<<i, k>> : k \in firstIndex..(firstIndex + rus - 1)}
    ELSE {}
    : <<i, j>> \in (0..(packets - 1)) \X (currRound..(currRound + rounds - 1))}

\* the maps MaximumWeightedMatching can insert: matched pairs read back with
\* the packet vertex first
MaximumWeightedMatching(sched, rounds, rus, currRound) ==
  LET packets == Len(sched)
      w == [i \in 0..(packets - 1) |-> Entry(sched, i)[3]]
  IN {[i \in DOMAIN mate1 |->
         GetRoundFromVertexIndex(mate1[i], packets, rus, currRound)]
      : mate1 \in MaximumWeightMatchings(MwmEdges(sched, rounds, rus, currRound), w)}

\* what a solve must deliver (section 4.3): packets mapped to rounds of the
\* horizon inside their windows, at most rus packets per round
Assignments(sched, rounds, rus, r0) ==
  LET P == PacketIndices(sched)
      R == r0..(r0 + rounds - 1)
  IN {m \in UNION {[D -> R] : D \in SUBSET P} :
        /\ \A p \in DOMAIN m : Entry(sched, p)[1] <= m[p] /\ m[p] <= Entry(sched, p)[2]
        /\ \A r \in R : Cardinality({p \in DOMAIN m : m[p] = r}) <= rus}

MaxAssignmentWeight(sched, rounds, rus, r0) ==
  LET W == {MapWeight(sched, m) : m \in Assignments(sched, rounds, rus, r0)}
  IN CHOOSE x \in W : \A y \in W : y <= x

\* argv[k] of a command line; argv[0] is the program name
Argv(argv, k) == argv[k + 1]

splits == <<18, 8, 4, 2, 1>>

\* the packetSchedule[packets][3] array read from argv[5] onwards: packet
\* index takes argv[b .. b + 2], b = 5 + 3 * index
ParsePacketSchedule(argv) ==
  [k \in 1..Argv(argv, 2) |->
     LET b == 5 + 3 * (k - 1)
     IN <<Argv(argv, b + 0), Argv(argv, b + 1), Argv(argv, b + 2)>>]

IlpCommandLine_WithSupplyFlow(sched, rounds, ruType, totalTones, roundOffset) ==
  <<"DeadlineAwareILP", rounds, Len(sched), ruType, totalTones, 1>> \o
  [n \in 1..(3 * Len(sched)) |->
     LET k == ((n - 1) \div 3) + 1
         c == ((n - 1) % 3) + 1
     IN IF c = 3 THEN sched[k][c] ELSE sched[k][c] - roundOffset]

\* the command line ILPSolver builds: rounds, packets, ruType, totalTones,
\* then arrival - roundOffset, deadline - roundOffset, penalty per packet
IlpCommandLine(sched, rounds, ruType, totalTones, roundOffset) ==
  <<"DeadlineAwareILP", rounds, Len(sched), ruType, totalTones>> \o
  [n \in 1..(3 * Len(sched)) |->
     LET k == ((n - 1) \div 3) + 1
         c == ((n - 1) % 3) + 1
     IN IF c = 3 THEN sched[k][c] ELSE sched[k][c] - roundOffset]

\* the external integer program (DeadlineAwareILP): the lines of ilp.output,
\* packet -> round counted from the start of the horizon; ruType indexes splits
DeadlineAwareILP(argv) ==
  LET rounds == Argv(argv, 1)
      rus == splits[Argv(argv, 3) + 1]
      triples == ParsePacketSchedule(argv)
      best == MaxAssignmentWeight(triples, rounds, rus, 0)
  IN {m \in Assignments(triples, rounds, rus, 0) : MapWeight(triples, m) = best}

\* case 40 of the switch; also reached by falling through case 20
RuTypeIndex40(ruType) ==
  IF ruType = RU_484_TONE THEN 4
  ELSE IF ruType = RU_242_TONE THEN 3
  ELSE IF ruType = RU_106_TONE THEN 2
  ELSE IF ruType = RU_52_TONE THEN 1
  ELSE IF ruType = RU_26_TONE THEN 0
  ELSE FATAL

GetRuTypeIndex(bw, ruType) ==
  IF bw = 20 THEN
    IF ruType = RU_242_TONE THEN 3
    ELSE IF ruType = RU_106_TONE THEN 2
    ELSE IF ruType = RU_52_TONE THEN 1
    ELSE IF ruType = RU_26_TONE THEN 0
    ELSE RuTypeIndex40(ruType)
  ELSE IF bw = 40 THEN RuTypeIndex40(ruType)
  ELSE FATAL

TotalTones(bw) == IF bw = 40 THEN 484 ELSE 242

\* ILPSolver: each parsed line is inserted with roundOffset added to its round
ILPSolver(sched, rounds, bw, ruType, roundOffset) ==
  {[p \in DOMAIN out |-> out[p] + roundOffset]
   : out \in DeadlineAwareILP(IlpCommandLine(sched, rounds, GetRuTypeIndex(bw, ruType),
                                              TotalTones(bw), roundOffset))}

\* ------------------------------------- standalone solver (min-cost flow)
McfRounds(argv) == Argv(argv, 1)
McfPackets(argv) == Argv(argv, 2)
McfRus(argv) == splits[Argv(argv, 3) + 1]

McfPacketSchedule(argv) == ParsePacketSchedule(argv)

McfArcs_ArrivalRoundOnly(rounds, packets, rus, packetSchedule) ==
  UNION {
    IF j = packetSchedule[i + 1][1]
    THEN LET firstIndex == (packets + 1) + (j * rus)
         IN {<<i + 1, k>> : k \in firstIndex..(firstIndex + rus - 1)}
    ELSE {}
    : <<i, j>> \in (0..(packets - 1)) \X (0..(rounds - 1))}

\* the arcs from packet node i + 1 to the RU nodes of the rounds of its window
McfArcs(rounds, packets, rus, packetSchedule) ==
  UNION {
    IF j >= packetSchedule[i + 1][1] /\ j <= packetSchedule[i + 1][2]
    THEN LET firstIndex == (packets + 1) + (j * rus)
         IN {<<i + 1, k>> : k \in firstIndex..(firstIndex + rus - 1)}
    ELSE {}
    : <<i, j>> \in (0..(packets - 1)) \X (0..(rounds - 1))}

\* the ascending sequence of a finite set of numbers
RECURSIVE Ascending(_)
Ascending(S) ==
  IF S = {} THEN <<>>
  ELSE LET x == CHOOSE y \in S : \A z \in S : y <= z
       IN <<x>> \o Ascending(S \ {x})

\* the <<packetIndex, roundIndex>> entries pushed for a flow: one per arc, in
\* arc order, whose flow times unit cost is negative
McfMapOfFlow(flow, packets, rus, packetSchedule) ==
  LET tails == Ascending({t \in DOMAIN flow : 1 * (0 - packetSchedule[t][3]) < 0})
  IN [n \in 1..Len(tails) |->
        <<tails[n] - 1, (flow[tails[n]] - packets - 1) \div rus>>]

SimpleMinCostFlowProgram_AnyFlow(st, rounds, packets, rus, packetSchedule, supplyFlow) ==
  LET arcs == McfArcs(rounds, packets, rus, packetSchedule)
      flows == {m \in MatchingsOf(arcs) : Cardinality(DOMAIN m) = supplyFlow}
      Cost(m) == SumOver(DOMAIN m, [t \in DOMAIN m |-> 0 - packetSchedule[t][3]])
      better == {m \in flows : Cost(m) < st.globalMinCost}
  IN IF better = {} THEN {st}
     ELSE {[globalMinCost |-> Cost(m),
            packetToRoundMap |-> McfMapOfFlow(m, packets, rus, packetSchedule)]
           : m \in better}

\* one call of SimpleMinCostFlowProgram on the globals st: with unit
\* capacities an integral flow of value supplyFlow is a matching of that size;
\* Solve() is OPTIMAL iff one exists and then returns one of least cost
SimpleMinCostFlowProgram(st, rounds, packets, rus, packetSchedule, supplyFlow) ==
  LET arcs == McfArcs(rounds, packets, rus, packetSchedule)
      flows == {m \in MatchingsOf(arcs) : Cardinality(DOMAIN m) = supplyFlow}
      Cost(m) == SumOver(DOMAIN m, [t \in DOMAIN m |-> 0 - packetSchedule[t][3]])
      costs == {Cost(m) : m \in flows}
      optimalCost == CHOOSE c \in costs : \A d \in costs : c <= d
  IN IF flows = {} THEN {st}
     ELSE IF optimalCost < st.globalMinCost
          THEN {[globalMinCost |-> optimalCost,
                 packetToRoundMap |-> McfMapOfFlow(m, packets, rus, packetSchedule)]
                : m \in {f \in flows : Cost(f) = optimalCost}}
          ELSE {st}

\* ------------------------------------------ the external process and its file
\* ILPSolver does not look at what system () returns and does not remove
\* ilp.output before the call; it reads whatever file is there afterwards.
\* A file is its sequence of lines: <<packet, round>> for "packet,round",
\* <<>> for a line that is no such pair; a file that cannot be opened reads
\* as no line at all.
LinesOf(out) == [n \in 1..Cardinality(DOMAIN out) |->
                   <<Ascending(DOMAIN out)[n], out[Ascending(DOMAIN out)[n]]>>]

\* atoi of the text before and after the comma; without a comma both are the
\* whole line, and atoi of text that is no number is 0
ParseLine(line) == IF Len(line) = 2 THEN line ELSE <<0, 0>>

\* the while loop over the lines: std::map::insert keeps an existing key
RECURSIVE ReadIlpOutput(_, _, _)
ReadIlpOutput(file, roundOffset, map) ==
  IF file = <<>> THEN map
  ELSE LET packet == ParseLine(Head(file))[1]
           round == ParseLine(Head(file))[2] + roundOffset
       IN ReadIlpOutput(Tail(file), roundOffset,
                        IF packet \in DOMAIN map THEN map
                        ELSE [x \in (DOMAIN map) \cup {packet} |->
                                IF x = packet THEN round ELSE map[x]])

\* a host on which the external process can fail: the file it left, whether
\* the latest run failed, and how many runs failed so far
FaultyHost(file, failed, faults) ==
  [kind |-> "host", file |-> file, failed |-> failed, faults |-> faults]

\* ilp.output after system (cmd) returned: rewritten by a run that succeeded;
\* after a failed run left as it was, absent or empty, cut short, or holding
\* text that is no result
SystemOutcomes(host, argv) ==
  LET good == {LinesOf(out) : out \in DeadlineAwareILP(argv)}
      bad == {host.file, <<>>, << <<>> >>}
             \cup UNION {{SubSeq(f, 1, k) : k \in 1..(Len(f) - 1)} : f \in good}
  IN {FaultyHost(f, FALSE, host.faults) : f \in good}
     \cup (IF host.faults < MaxFaults
           THEN {FaultyHost(f, TRUE, host.faults + 1) : f \in bad}
           ELSE {})

\* ILPSolver on a host: the lines of the file system (cmd) leaves are
\* inserted into the map as it is.  On a host of kind "none" the process always
\* succeeds and the file is not followed.
IlpRuns(host, map, sched, rounds, bw, ruType, roundOffset) ==
  IF host.kind # "host"
  THEN {[map |-> ReadIlpOutput(LinesOf([p \in DOMAIN m |-> m[p] - roundOffset]),
                               roundOffset, map),
         host |-> host]
        : m \in ILPSolver(sched, rounds, bw, ruType, roundOffset)}
  ELSE {[map |-> ReadIlpOutput(h.file, roundOffset, map), host |-> h]
        : h \in SystemOutcomes(host, IlpCommandLine(sched, rounds,
                                                     GetRuTypeIndex(bw, ruType),
                                                     TotalTones(bw), roundOffset))}

\* ------------------------------------------------------------------ state
VARIABLES
  m_staPacketInfo,        \* station i -> <<period, deadline, penalty>>
  channelWidth,           \* m_apMac->GetWifiPhy ()->GetChannelWidth ()
  assertsOn,              \* NS_ASSERT is compiled in (debug build)
  m_currRound,
  m_roundsPerSchedule,    \* the cache GetRoundsPerSchedule fills on its first call
  m_hasDeadlineConstrainedTrafficStarted,
  isRoundOffsetSet,
  timerScheduled,         \* a StartNextRound event is pending in the simulator
  m_packetSchedule,
  m_packetToRoundMap,
  m_mpduToCurrPacketMap,
  queue,                  \* station -> its queued packets, as generation rounds
  m_candidates,
  pc,                     \* "idle", "compute" (between TrySendingDlMuPpdu and
                          \* ComputeDlMuInfo), "crashed" (abort or uncaught throw),
                          \* "fatal" (NS_FATAL_ERROR)
  lastGenRound,           \* history: round of the latest schedule generation
  generated,              \* history: the latest TrySendingDlMuPpdu generated
  decided,                \* history: what the latest ComputeDlMuInfo decided
  bench,                  \* solver runs outside the engine
  scheduler,              \* "da" or "drr": the scheduler the driver installed
  m_staList,              \* DRR: the station list, records [aid, credits]
  m_havePacketsArrived,   \* DRR
  m_pendingCandidates     \* DRR

vars == <<m_staPacketInfo, channelWidth, assertsOn, m_currRound, m_roundsPerSchedule,
          m_hasDeadlineConstrainedTrafficStarted, isRoundOffsetSet, timerScheduled,
          m_packetSchedule, m_packetToRoundMap, m_mpduToCurrPacketMap, queue,
          m_candidates, pc, lastGenRound, generated, decided, bench, scheduler,
          m_staList, m_havePacketsArrived, m_pendingCandidates>>

\* the members only DrrMultiUserScheduler has
drrVars == <<m_staList, m_havePacketsArrived, m_pendingCandidates>>

engineVars == <<m_staPacketInfo, channelWidth, assertsOn, m_currRound,
                m_roundsPerSchedule, m_hasDeadlineConstrainedTrafficStarted, isRoundOffsetSet,
                timerScheduled, m_packetSchedule, m_packetToRoundMap,
                m_mpduToCurrPacketMap, queue, m_candidates, pc, lastGenRound,
                generated, decided, scheduler, m_staList, m_havePacketsArrived,
                m_pendingCandidates>>

\* ------------------------------------------------------------ input spaces
\* deadline < period is the driver's stated requirement
StaTriples ==
  {t \in (1..MaxPeriod) \X (0..(MaxPeriod - 1)) \X (0..MaxPenalty) : t[2] < t[1]}

Configs == UNION {[1..n -> StaTriples] : n \in 1..MaxStations}

Widths == {20, 40}

\* m_channelWidth of the driver
DriverChannelWidth == 40

NoBench == [kind |-> "none"]

\* ------------------------------------------------------------ engine: Init
\* no DrrMultiUserScheduler is installed
DrrParked ==
  /\ m_staList = <<>>
  /\ m_havePacketsArrived = FALSE
  /\ m_pendingCandidates = <<>>

\* the driver calls StartNextRound(true), which emits a packet for every
\* station (0 % roundsPerSchedule = 0), then NotifyDeadlineConstrainedTrafficStarted;
\* the channel width is left to the caller
EngineStart ==
  /\ scheduler = "da"
  /\ DrrParked
  /\ m_staPacketInfo \in Configs
  /\ assertsOn \in BOOLEAN
  /\ m_currRound = 0
  /\ m_roundsPerSchedule = GetRoundsPerSchedule(m_staPacketInfo)
  /\ m_hasDeadlineConstrainedTrafficStarted = TRUE
  /\ isRoundOffsetSet = FALSE
  /\ timerScheduled = TRUE
  /\ m_packetSchedule = <<>>
  /\ m_packetToRoundMap = EmptyMap
  /\ m_mpduToCurrPacketMap = EmptyMap
  /\ queue = [i \in Stations(m_staPacketInfo) |-> <<0>>]
  /\ m_candidates = <<>>
  /\ pc = "idle"
  /\ lastGenRound = -1
  /\ generated = FALSE
  /\ decided = {}

EngineInit == EngineStart /\ channelWidth = DriverChannelWidth

Init == EngineInit /\ bench = NoBench

\* ------------------------------------------------- engine: StartNextRound
ArrivingUsers_BoundaryOnly(info, rps, r) ==
  IF r % rps = 0 THEN Stations(info) ELSE {}

\* the stations StartNextRound emits a packet for in round r
ArrivingUsers(info, rps, r) ==
  IF r % rps = 0 THEN Stations(info)
  ELSE {i \in Stations(info) : r % Period(info, i) = 0}

\* the 1 ms timer event StartNextRound(false)
StartNextRound ==
  /\ scheduler = "da"
  /\ pc = "idle"
  /\ timerScheduled
  /\ LET r == m_currRound + 1 IN
     /\ m_currRound' = r
     /\ IF r >= RoundLimit
        THEN /\ m_hasDeadlineConstrainedTrafficStarted' = FALSE
             /\ timerScheduled' = FALSE
             /\ UNCHANGED queue
        ELSE /\ \A i \in ArrivingUsers(m_staPacketInfo, m_roundsPerSchedule, r) : Len(queue[i]) < MaxQueue
             /\ queue' = [i \in DOMAIN queue |->
                            IF i \in ArrivingUsers(m_staPacketInfo, m_roundsPerSchedule, r)
                            THEN Append(queue[i], r) ELSE queue[i]]
             /\ UNCHANGED <<m_hasDeadlineConstrainedTrafficStarted, timerScheduled>>
  /\ generated' = FALSE
  /\ decided' = {}
  /\ UNCHANGED <<m_staPacketInfo, channelWidth, assertsOn, m_roundsPerSchedule,
                 isRoundOffsetSet, m_packetSchedule, m_packetToRoundMap, m_mpduToCurrPacketMap,
                 m_candidates, pc, lastGenRound, bench, scheduler>>
  /\ UNCHANGED drrVars

\* --------------------------------------------- engine: TrySendingDlMuPpdu
\* nextIndex when the loop of GenerateMpduToCurrPacketMap reaches station p
RECURSIVE NextIndex(_, _, _)
NextIndex(info, rps, p) ==
  IF p = 0 THEN 0
  ELSE NextIndex(info, rps, p - 1) + (rps \div Period(info, p - 1))

GenerateMpduToCurrPacketMap(info, rps) ==
  [p \in Stations(info) |-> NextIndex(info, rps, p)]

\* the stations with a frame queued, in station-list order
CandidatesOf(q) ==
  Ascending({i \in DOMAIN q : q[i] # <<>>})

\* the condition under which TrySendingDlMuPpdu generates schedule, map and pointers
ShouldGenerate(started, map, currRound, rps, cands) ==
  /\ started
  /\ map = EmptyMap
  /\ currRound % rps = 0
  /\ cands # <<>>

\* a transmit opportunity: access is requested only while a frame is queued
TrySendingDlMuPpdu ==
  /\ scheduler = "da"
  /\ pc = "idle"
  /\ \E i \in DOMAIN queue : queue[i] # <<>>
  /\ LET cands == CandidatesOf(queue) IN
     /\ m_candidates' = cands
     /\ isRoundOffsetSet' =
          (isRoundOffsetSet \/ (m_hasDeadlineConstrainedTrafficStarted /\ cands # <<>>))
     /\ IF ShouldGenerate(m_hasDeadlineConstrainedTrafficStarted, m_packetToRoundMap,
                          m_currRound, m_roundsPerSchedule, cands)
        THEN LET sched == GeneratePacketScheduleForSetRounds(m_staPacketInfo, m_currRound)
                 ruType == GetRuTypePerRound(channelWidth,
                                             GetPacketsPerSchedule(m_staPacketInfo))
             IN /\ m_packetSchedule' = sched
                /\ lastGenRound' = m_currRound
                /\ generated' = TRUE
                /\ IF ruType = FATAL
                   THEN \* NS_FATAL_ERROR of GetRuTypePerRound in ILPSolver
                        /\ pc' = "fatal"
                        /\ UNCHANGED <<m_packetToRoundMap, m_mpduToCurrPacketMap, bench>>
                   ELSE /\ \E run \in IlpRuns(bench, m_packetToRoundMap, sched,
                                                m_roundsPerSchedule, channelWidth,
                                                ruType, m_currRound) :
                             /\ m_packetToRoundMap' = run.map
                             /\ bench' = run.host
                        /\ m_mpduToCurrPacketMap' =
                             GenerateMpduToCurrPacketMap(m_staPacketInfo,
                                                         m_roundsPerSchedule)
                        /\ pc' = "compute"
        ELSE /\ generated' = FALSE
             /\ pc' = "compute"
             /\ UNCHANGED <<m_packetSchedule, m_packetToRoundMap,
                            m_mpduToCurrPacketMap, lastGenRound, bench>>
  /\ decided' = {}
  /\ UNCHANGED <<m_staPacketInfo, channelWidth, assertsOn, m_currRound,
                 m_roundsPerSchedule, m_hasDeadlineConstrainedTrafficStarted,
                 timerScheduled, queue, scheduler>>
  /\ UNCHANGED drrVars

\* ------------------------------------------------ engine: ComputeDlMuInfo
\* the condition of NS_ASSERT (m_packetSchedule[*p][3] == aid); the read is
\* out of bounds when p is no index of the schedule
PointerInSchedule(sched, p) == p \in PacketIndices(sched)

PointerOwner(sched, p) == IF PointerInSchedule(sched, p) THEN Entry(sched, p)[4] ELSE -1

\* the branch taken on m_packetToRoundMap.find(*p)
Decision(map, p, currRound) ==
  IF p \in DOMAIN map
  THEN IF map[p] = currRound THEN "tx" ELSE "buffer"
  ELSE "drop"

QueueAfterDecision_KeepHead(q, kind) == q

\* the queue of a candidate after the decision branch ran: only the drop
\* branch dequeues the head there
QueueAfterDecision(q, kind) == IF kind = "drop" THEN Tail(q) ELSE q

\* the pointer after the decision branch ran
PointerAfterDecision(p, kind) == IF kind \in {"tx", "drop"} THEN p + 1 ELSE p

\* the map after the decision branch ran
MapAfterDecision(map, p, kind) ==
  IF kind = "tx" THEN [x \in (DOMAIN map) \ {p} |-> map[x]] ELSE map

DecisionRecord(aid, gen, p, owner, mapped, kind, round) ==
  [aid |-> aid, gen |-> gen, ptr |-> p, owner |-> owner, mapped |-> mapped,
   kind |-> kind, round |-> round]

\* one iteration of the loop over m_candidates.  ubPass is what the
\* out-of-bounds read of the assertion yields: a value equal to aid or not
ExamineCandidate(st, aid, currRound, sched, asserts, ubPass) ==
  IF aid \notin DOMAIN st.ptr
  THEN \* m_mpduToCurrPacketMap.at (aid) throws std::out_of_range
       [st EXCEPT !.crashed = TRUE,
                  !.decided = @ \cup {DecisionRecord(aid, Head(st.queue[aid]), -1, -1, -1,
                                                     "abort", currRound)}]
  ELSE LET p == st.ptr[aid]
           owner == PointerOwner(sched, p)
           mapped == IF p \in DOMAIN st.map THEN st.map[p] ELSE -1
           assertFails == IF PointerInSchedule(sched, p) THEN owner # aid ELSE ~ubPass
           kind == Decision(st.map, p, currRound)
       IN IF asserts /\ assertFails
          THEN [st EXCEPT !.crashed = TRUE,
                          !.decided = @ \cup {DecisionRecord(aid, Head(st.queue[aid]), p,
                                                             owner, mapped, "abort",
                                                             currRound)}]
          ELSE [map |-> MapAfterDecision(st.map, p, kind),
                ptr |-> [st.ptr EXCEPT ![aid] = PointerAfterDecision(p, kind)],
                queue |-> [st.queue EXCEPT ![aid] = QueueAfterDecision(@, kind)],
                roundCandidates |-> IF kind = "tx" THEN Append(st.roundCandidates, aid)
                                    ELSE st.roundCandidates,
                decided |-> st.decided \cup
                              {DecisionRecord(aid, Head(st.queue[aid]), p, owner, mapped,
                                              kind, currRound)},
                crashed |-> FALSE]

RECURSIVE ExamineCandidates(_, _, _, _, _, _)
ExamineCandidates(cands, st, currRound, sched, asserts, ubPass) ==
  IF cands = <<>> \/ st.crashed THEN st
  ELSE ExamineCandidates(Tail(cands),
                         ExamineCandidate(st, Head(cands), currRound, sched, asserts, ubPass),
                         currRound, sched, asserts, ubPass)

\* HeRu::GetEqualSizedRusForStations: the number of stations served outside
\* deadline mode, the RU count of the largest RU type with at most n RUs
EqualSizedRusForStations(bw, n) ==
  LET counts == IF bw = 20 THEN {9, 4, 2, 1} ELSE {18, 8, 4, 2, 1}
      fit == {c \in counts : c <= n}
  IN CHOOSE c \in fit : \A d \in fit : d <= c

\* the queues once the PSDUs of the served stations were sent
QueueAfterTransmission(q, served) ==
  [i \in DOMAIN q |-> IF i \in Range(served) THEN Tail(q[i]) ELSE q[i]]

ComputeDlMuInfo ==
  /\ scheduler = "da"
  /\ pc = "compute"
  /\ IF m_hasDeadlineConstrainedTrafficStarted /\ isRoundOffsetSet
     THEN \E ubPass \in BOOLEAN :
            LET st0 == [map |-> m_packetToRoundMap, ptr |-> m_mpduToCurrPacketMap,
                        queue |-> queue, roundCandidates |-> <<>>, decided |-> {},
                        crashed |-> FALSE]
                res == ExamineCandidates(m_candidates, st0, m_currRound,
                                         m_packetSchedule, assertsOn, ubPass)
            IN /\ m_packetToRoundMap' = res.map
               /\ m_mpduToCurrPacketMap' = res.ptr
               /\ decided' = res.decided
               /\ IF res.crashed
                  THEN /\ pc' = "crashed"
                       /\ queue' = res.queue
                  ELSE /\ pc' = "idle"
                       /\ queue' = QueueAfterTransmission(res.queue, res.roundCandidates)
     ELSE LET nRusAssigned == EqualSizedRusForStations(channelWidth, Len(m_candidates))
              served == SubSeq(m_candidates, 1, nRusAssigned)
          IN /\ pc' = "idle"
             /\ queue' = QueueAfterTransmission(queue, served)
             /\ decided' = {DecisionRecord(served[n], Head(queue[served[n]]), -1, -1, -1,
                                           "plain", m_currRound) : n \in 1..Len(served)}
             /\ UNCHANGED <<m_packetToRoundMap, m_mpduToCurrPacketMap>>
  /\ m_candidates' = <<>>
  /\ UNCHANGED <<m_staPacketInfo, channelWidth, assertsOn, m_currRound,
                 m_roundsPerSchedule, m_hasDeadlineConstrainedTrafficStarted,
                 isRoundOffsetSet, timerScheduled, m_packetSchedule, lastGenRound,
                 generated, bench, scheduler>>
  /\ UNCHANGED drrVars

\* ------------------------------------------------------------ engine: Spec
Next == StartNextRound \/ TrySendingDlMuPpdu \/ ComputeDlMuInfo

Spec == Init /\ [][Next]_vars

\* --------------------------- engine with an external process that can fail
\* ilp.output does not exist when the simulation starts; a debug build; every
\* station carries a penalty, so that a run that succeeds leaves no packet
\* out at will
FaultyHostInit ==
  /\ EngineInit
  /\ assertsOn
  /\ \A i \in Stations(m_staPacketInfo) : Penalty(m_staPacketInfo, i) > 0
  /\ bench = FaultyHost(<<>>, FALSE, 0)

FaultyHostSpec == FaultyHostInit /\ [][Next]_vars

\* ------------------------------------- engine at 20 MHz, many stations
\* --channelWidth=20 and --nStations up to MaxDenseStations, every station
\* with a packet per round, due in that round, penalty 1; a release build
MaxDenseStations == 10

DenseInit ==
  /\ scheduler = "da"
  /\ DrrParked
  /\ m_staPacketInfo \in {[i \in 1..n |-> <<1, 0, 1>>] : n \in 1..MaxDenseStations}
  /\ channelWidth = 20
  /\ assertsOn = FALSE
  /\ m_currRound = 0
  /\ m_roundsPerSchedule = GetRoundsPerSchedule(m_staPacketInfo)
  /\ m_hasDeadlineConstrainedTrafficStarted = TRUE
  /\ isRoundOffsetSet = FALSE
  /\ timerScheduled = TRUE
  /\ m_packetSchedule = <<>>
  /\ m_packetToRoundMap = EmptyMap
  /\ m_mpduToCurrPacketMap = EmptyMap
  /\ queue = [i \in Stations(m_staPacketInfo) |-> <<0>>]
  /\ m_candidates = <<>>
  /\ pc = "idle"
  /\ lastGenRound = -1
  /\ generated = FALSE
  /\ decided = {}
  /\ bench = NoBench

DenseSpec == DenseInit /\ [][Next]_vars

\* ------------------------------------- engine on an unsupported channel
\* the channel widths of the PHY that the scheduler has no case for
UnsupportedWidths == {80, 160}

UnsupportedWidthInit ==
  EngineStart /\ channelWidth \in UnsupportedWidths /\ bench = NoBench

UnsupportedWidthSpec == UnsupportedWidthInit /\ [][Next]_vars

\* ------------------------------------------------- engine: the start-up
\* The driver hands over m_staPacketInfo and calls StartNextRound(true) and
\* NotifyDeadlineConstrainedTrafficStarted.  Nothing checks the periods, so
\* the configurations here include periods of 0.  An integer division by
\* zero is undefined: the process is stopped by the trap, or goes on with a
\* value the language does not define.
MaxStartupStations == 3

StartupTriples ==
  {t \in (0..MaxPeriod) \X (0..(MaxPeriod - 1)) \X (0..MaxPenalty) :
     t[2] < t[1] \/ (t[1] = 0 /\ t[2] = 0)}

StartupConfigs == UNION {[1..n -> StartupTriples] : n \in 1..MaxStartupStations}

HasZeroPeriod(info) == \E i \in Stations(info) : Period(info, i) = 0

\* the scheduler as constructed, with the driver's SetStaPacketInfo done
StartupInit ==
  /\ scheduler = "da"
  /\ DrrParked
  /\ m_staPacketInfo \in StartupConfigs
  /\ channelWidth = DriverChannelWidth
  /\ assertsOn \in BOOLEAN
  /\ m_currRound = 0
  /\ m_roundsPerSchedule = 0
  /\ m_hasDeadlineConstrainedTrafficStarted = FALSE
  /\ isRoundOffsetSet = FALSE
  /\ timerScheduled = FALSE
  /\ m_packetSchedule = <<>>
  /\ m_packetToRoundMap = EmptyMap
  /\ m_mpduToCurrPacketMap = EmptyMap
  /\ queue = [i \in Stations(m_staPacketInfo) |-> <<>>]
  /\ m_candidates = <<>>
  /\ pc = "start"
  /\ lastGenRound = -1
  /\ generated = FALSE
  /\ decided = {}
  /\ bench = NoBench

\* the while loop of LCM never ends: two elements stay 0, so every x finds
\* two elements it divides and x is never incremented
LCMDiverges(arr) ==
  /\ Cardinality({j \in 1..Len(arr) : arr[j] = 0}) >= 2
  /\ MaxOf(arr) >= 2

\* StartNextRound(true); NotifyDeadlineConstrainedTrafficStarted()
DriverStart ==
  /\ pc = "start"
  /\ LET arr == [j \in 1..Len(m_staPacketInfo) |-> m_staPacketInfo[j][1]] IN
     IF LCMDiverges(arr)
     THEN /\ pc' = "hung"
          /\ UNCHANGED <<m_roundsPerSchedule, m_hasDeadlineConstrainedTrafficStarted,
                         timerScheduled, queue>>
     ELSE /\ m_roundsPerSchedule' = LCM(arr)
          /\ IF LCM(arr) = 0
             THEN \* m_currRound % GetRoundsPerSchedule () divides by zero
                  /\ pc' \in {"crashed", "undefined"}
                  /\ UNCHANGED <<m_hasDeadlineConstrainedTrafficStarted, timerScheduled,
                                 queue>>
             ELSE /\ pc' = "idle"
                  /\ queue' = [i \in DOMAIN queue |->
                                 IF i \in ArrivingUsers(m_staPacketInfo, LCM(arr), 0)
                                 THEN <<0>> ELSE <<>>]
                  /\ m_hasDeadlineConstrainedTrafficStarted' = TRUE
                  /\ timerScheduled' = TRUE
  /\ UNCHANGED <<m_staPacketInfo, channelWidth, assertsOn, m_currRound, isRoundOffsetSet,
                 m_packetSchedule, m_packetToRoundMap, m_mpduToCurrPacketMap,
                 m_candidates, lastGenRound, generated, decided, bench, scheduler>>
  /\ UNCHANGED drrVars

StartupSpec == StartupInit /\ [][DriverStart]_vars

\* ============================================ DrrMultiUserScheduler
\* The deadline round-robin scheduler under the same driver configuration.
\* It keeps its own copies of the horizon functions; every PPDU is taken to
\* last TxDuration, so that credits are integers.  The cap m_maxCredits
\* (1 s) is out of reach within RoundLimit rounds of PPDUs of a few ms.
MaxDrrStations == 3

DrrConfigs == UNION {[1..n -> StaTriples] : n \in 1..MaxDrrStations}

TxDuration == Product([k \in 1..MaxDrrStations |-> k])

DrrGetRoundsPerSchedule(info) == LCM([i \in 1..Len(info) |-> info[i][1]])

DrrGeneratePacketScheduleForSetRounds(info, r0) ==
  LET RECURSIVE from(_)
      from(i) == IF i = NStations(info) THEN <<>>
                 ELSE [j \in 1..(DrrGetRoundsPerSchedule(info) \div Period(info, i)) |->
                         <<r0 + (j - 1) * Period(info, i),
                           r0 + (j - 1) * Period(info, i) + Deadline(info, i),
                           Penalty(info, i), i>>] \o from(i + 1)
  IN from(0)

\* m_staList in association order, no credits yet
InitialStaList(info) == [k \in 1..NStations(info) |-> [aid |-> k - 1, credits |-> 0]]

DrrInit ==
  /\ scheduler = "drr"
  /\ m_staPacketInfo \in DrrConfigs
  /\ channelWidth = DriverChannelWidth
  /\ assertsOn \in BOOLEAN
  /\ m_currRound = 0
  /\ m_roundsPerSchedule = DrrGetRoundsPerSchedule(m_staPacketInfo)
  /\ m_hasDeadlineConstrainedTrafficStarted = TRUE
  /\ isRoundOffsetSet = FALSE
  /\ timerScheduled = FALSE
  /\ m_packetSchedule = <<>>
  /\ m_packetToRoundMap = EmptyMap
  /\ m_mpduToCurrPacketMap = EmptyMap
  /\ queue = [i \in Stations(m_staPacketInfo) |-> <<0>>]
  /\ m_candidates = <<>>
  /\ pc = "idle"
  /\ lastGenRound = -1
  /\ generated = FALSE
  /\ decided = {}
  /\ m_staList = InitialStaList(m_staPacketInfo)
  /\ m_havePacketsArrived = FALSE
  /\ m_pendingCandidates = <<>>
  /\ bench = NoBench

\* ------------------------------------------------ DRR: StartNextRound
\* the stations DrrMultiUserScheduler::StartNextRound emits a packet for
DrrArrivingUsers(info, rps, r) ==
  IF r % rps = 0 THEN Stations(info)
  ELSE {i \in Stations(info) : r % Period(info, i) = 0}

\* StartNextRound(false) as called at the end of ComputeDlMuInfo: the round,
\* the deadline-mode flag and the queues it leaves
DrrStartNextRound_NoLimit(info, rps, currRound, started, q) ==
  LET r == currRound + 1
  IN [round |-> r, started |-> started,
      queue |-> [i \in DOMAIN q |-> IF i \in DrrArrivingUsers(info, rps, r)
                                     THEN Append(q[i], r) ELSE q[i]]]

DrrStartNextRound(info, rps, currRound, started, q) ==
  LET r == currRound + 1
  IN IF r >= RoundLimit
     THEN [round |-> r, started |-> FALSE, queue |-> q]
     ELSE [round |-> r, started |-> started,
           queue |-> [i \in DOMAIN q |-> IF i \in DrrArrivingUsers(info, rps, r)
                                          THEN Append(q[i], r) ELSE q[i]]]

\* -------------------------------------------- DRR: TrySendingDlMuPpdu
\* the first count stations of the list with a frame queued
RECURSIVE DrrCandidatesOf(_, _, _)
DrrCandidatesOf(list, q, count) ==
  IF list = <<>> \/ count = 0 THEN <<>>
  ELSE IF q[Head(list).aid] # <<>>
       THEN <<Head(list).aid>> \o DrrCandidatesOf(Tail(list), q, count - 1)
       ELSE DrrCandidatesOf(Tail(list), q, count)

DrrCount(started, bw, nStations) ==
  IF started THEN nStations ELSE EqualSizedRusForStations(bw, nStations)

DrrTrySendingDlMuPpdu ==
  /\ scheduler = "drr"
  /\ pc = "idle"
  /\ \E i \in DOMAIN queue : queue[i] # <<>>
  /\ LET cands == DrrCandidatesOf(m_staList, queue,
                                  DrrCount(m_hasDeadlineConstrainedTrafficStarted,
                                           channelWidth, NStations(m_staPacketInfo)))
     IN /\ m_candidates' = cands
        /\ m_havePacketsArrived' =
             (m_havePacketsArrived \/ (m_hasDeadlineConstrainedTrafficStarted /\ cands # <<>>))
        /\ IF /\ m_hasDeadlineConstrainedTrafficStarted
              /\ cands # <<>>
              /\ m_currRound % m_roundsPerSchedule = 0
           THEN /\ m_packetSchedule' =
                     DrrGeneratePacketScheduleForSetRounds(m_staPacketInfo, m_currRound)
                /\ lastGenRound' = m_currRound
                /\ generated' = TRUE
           ELSE /\ generated' = FALSE
                /\ UNCHANGED <<m_packetSchedule, lastGenRound>>
  /\ pc' = "compute"
  /\ decided' = {}
  /\ UNCHANGED <<m_staPacketInfo, channelWidth, assertsOn, m_currRound,
                 m_roundsPerSchedule, m_hasDeadlineConstrainedTrafficStarted,
                 isRoundOffsetSet, timerScheduled, m_packetToRoundMap,
                 m_mpduToCurrPacketMap, queue, bench, scheduler, m_staList,
                 m_pendingCandidates>>

\* ----------------------------------------------- DRR: ComputeDlMuInfo
\* the candidates left in m_candidates and handed to the transmission
DrrServed(cands, nRusAssigned) == SubSeq(cands, 1, nRusAssigned)

DrrPending_SkipsFirst(cands, nRusAssigned) == SubSeq(cands, nRusAssigned + 2, Len(cands))

\* the candidates copied to m_pendingCandidates
DrrPending(cands, nRusAssigned) == SubSeq(cands, nRusAssigned + 1, Len(cands))

DrrDropFlag_OnArrival(sched, aid, currRound) ==
  \E k \in 1..Len(sched) : sched[k][4] = aid /\ sched[k][1] = currRound

\* dropFlag of a pending candidate: the scan of m_packetSchedule
DrrDropFlag(sched, aid, currRound) ==
  \E k \in 1..Len(sched) : sched[k][4] = aid /\ sched[k][2] = currRound

\* the queues after the frames of the stations in S were dequeued
DrrDequeue(q, S) == [i \in DOMAIN q |-> IF i \in S THEN Tail(q[i]) ELSE q[i]]

\* credits after a PPDU for the served stations
DrrCredits(list, served) ==
  [k \in 1..Len(list) |->
     [aid |-> list[k].aid,
      credits |-> list[k].credits + (TxDuration \div Len(list))
                  - (IF list[k].aid \in Range(served)
                     THEN TxDuration \div Len(served) ELSE 0)]]

\* std::list::sort by decreasing credits; the sort is stable
RECURSIVE DrrSortByCredits(_)
DrrSortByCredits(list) ==
  IF list = <<>> THEN <<>>
  ELSE LET k == CHOOSE j \in 1..Len(list) :
                  /\ \A l \in 1..Len(list) : list[l].credits <= list[j].credits
                  /\ \A l \in 1..(j - 1) : list[l].credits < list[j].credits
       IN <<list[k]>> \o
          DrrSortByCredits(SubSeq(list, 1, k - 1) \o SubSeq(list, k + 1, Len(list)))

DrrRecord(aid, gen, kind, round, pending) ==
  [aid |-> aid, gen |-> gen, kind |-> kind, round |-> round, pending |-> pending]

DrrComputeDlMuInfo ==
  /\ scheduler = "drr"
  /\ pc = "compute"
  /\ LET deadlineMode == m_hasDeadlineConstrainedTrafficStarted /\ m_havePacketsArrived
         nRusAssigned == EqualSizedRusForStations(channelWidth, Len(m_candidates))
         served == DrrServed(m_candidates, nRusAssigned)
         pending == IF deadlineMode THEN DrrPending(m_candidates, nRusAssigned)
                    ELSE m_pendingCandidates
         dropped == IF deadlineMode
                    THEN {aid \in Range(pending) :
                            DrrDropFlag(m_packetSchedule, aid, m_currRound)}
                    ELSE {}
         sent == DrrDequeue(DrrDequeue(queue, dropped), Range(served))
         next == IF deadlineMode
                 THEN DrrStartNextRound(m_staPacketInfo, m_roundsPerSchedule, m_currRound,
                                        m_hasDeadlineConstrainedTrafficStarted, sent)
                 ELSE [round |-> m_currRound,
                       started |-> m_hasDeadlineConstrainedTrafficStarted, queue |-> sent]
     IN /\ m_pendingCandidates' = pending
        /\ m_candidates' = served
        /\ m_staList' = DrrSortByCredits(DrrCredits(m_staList, served))
        /\ decided' =
             {DrrRecord(served[n], Head(queue[served[n]]),
                        IF deadlineMode THEN "tx" ELSE "plain", m_currRound, FALSE)
              : n \in 1..Len(served)}
             \cup (IF deadlineMode
                   THEN {DrrRecord(pending[n], Head(queue[pending[n]]),
                                   IF pending[n] \in dropped THEN "drop" ELSE "buffer",
                                   m_currRound, TRUE)
                         : n \in 1..Len(pending)}
                   ELSE {})
        /\ m_currRound' = next.round
        /\ m_hasDeadlineConstrainedTrafficStarted' = next.started
        /\ queue' = next.queue
  /\ pc' = "idle"
  /\ UNCHANGED <<m_staPacketInfo, channelWidth, assertsOn, m_roundsPerSchedule,
                 isRoundOffsetSet, timerScheduled, m_packetSchedule, m_packetToRoundMap,
                 m_mpduToCurrPacketMap, lastGenRound, generated, bench, scheduler,
                 m_havePacketsArrived>>

DrrNext == DrrTrySendingDlMuPpdu \/ DrrComputeDlMuInfo

DrrSpec == DrrInit /\ [][DrrNext]_vars

\* either scheduler, as the driver installs it
SchedulersNext == Next \/ DrrNext

SchedulersSpec == (Init \/ DrrInit) /\ [][SchedulersNext]_vars

\* ------------------------------- the driver run once with each scheduler
\* The same station set and channel width, first with --scheduler=0 (DRR),
\* then with --scheduler=1 (DA).  The packets each run dequeues as dropped
\* are collected from the decisions of every ComputeDlMuInfo, as
\* <<station, generation round, round of the drop>>.  Every station carries
\* a penalty; each run is followed for MaxCompared horizons.
MaxCompared == 2        \* horizons each run is followed for

DropsOf(decisions) ==
  {<<d.aid, d.gen, d.round>> : d \in {x \in decisions : x.kind = "drop"}}

ExperimentInit ==
  /\ scheduler = "drr"
  /\ m_staPacketInfo \in Configs
  /\ \A i \in Stations(m_staPacketInfo) : Penalty(m_staPacketInfo, i) > 0
  /\ channelWidth = DriverChannelWidth
  /\ assertsOn = FALSE
  /\ m_currRound = 0
  /\ m_roundsPerSchedule = DrrGetRoundsPerSchedule(m_staPacketInfo)
  /\ m_hasDeadlineConstrainedTrafficStarted = TRUE
  /\ isRoundOffsetSet = FALSE
  /\ timerScheduled = FALSE
  /\ m_packetSchedule = <<>>
  /\ m_packetToRoundMap = EmptyMap
  /\ m_mpduToCurrPacketMap = EmptyMap
  /\ queue = [i \in Stations(m_staPacketInfo) |-> <<0>>]
  /\ m_candidates = <<>>
  /\ pc = "idle"
  /\ lastGenRound = -1
  /\ generated = FALSE
  /\ decided = {}
  /\ m_staList = InitialStaList(m_staPacketInfo)
  /\ m_havePacketsArrived = FALSE
  /\ m_pendingCandidates = <<>>
  /\ bench = [kind |-> "experiment", drr |-> {}, da |-> {}, drrRounds |-> 0]

\* every drop of the latest ComputeDlMuInfo is collected
ExperimentCollected ==
  DropsOf(decided) \subseteq (IF scheduler = "drr" THEN bench.drr ELSE bench.da)

ExperimentCollect ==
  /\ ~ExperimentCollected
  /\ bench' = IF scheduler = "drr"
               THEN [bench EXCEPT !.drr = @ \cup DropsOf(decided)]
               ELSE [bench EXCEPT !.da = @ \cup DropsOf(decided)]
  /\ UNCHANGED engineVars

ExperimentDrr ==
  /\ ExperimentCollected
  /\ m_currRound < MaxCompared * m_roundsPerSchedule
  /\ DrrNext

\* the DRR run is left (or is over: no frame is queued, so no event is left);
\* the driver is started again with the DA scheduler, as in EngineStart
ExperimentSecondRun ==
  /\ scheduler = "drr"
  /\ pc = "idle"
  /\ ExperimentCollected
  /\ \/ \A i \in DOMAIN queue : queue[i] = <<>>
     \/ m_currRound >= MaxCompared * m_roundsPerSchedule
  /\ bench' = [bench EXCEPT !.drrRounds = m_currRound]
  /\ scheduler' = "da"
  /\ m_staList' = <<>>
  /\ m_havePacketsArrived' = FALSE
  /\ m_pendingCandidates' = <<>>
  /\ m_currRound' = 0
  /\ m_roundsPerSchedule' = GetRoundsPerSchedule(m_staPacketInfo)
  /\ m_hasDeadlineConstrainedTrafficStarted' = TRUE
  /\ isRoundOffsetSet' = FALSE
  /\ timerScheduled' = TRUE
  /\ m_packetSchedule' = <<>>
  /\ m_packetToRoundMap' = EmptyMap
  /\ m_mpduToCurrPacketMap' = EmptyMap
  /\ queue' = [i \in Stations(m_staPacketInfo) |-> <<0>>]
  /\ m_candidates' = <<>>
  /\ lastGenRound' = -1
  /\ generated' = FALSE
  /\ decided' = {}
  /\ UNCHANGED <<m_staPacketInfo, channelWidth, assertsOn, pc>>

ExperimentDa ==
  /\ ExperimentCollected
  /\ m_currRound < MaxCompared * m_roundsPerSchedule
  /\ Next

ExperimentNext ==
  ExperimentDrr \/ ExperimentCollect \/ ExperimentSecondRun \/ ExperimentDa

ExperimentSpec == ExperimentInit /\ [][ExperimentNext]_vars

\* ----------------------------------------------- solver runs: input spaces
\* a scheduler about to solve at a horizon boundary
SchedulerInputs ==
  {[kind |-> "scheduler", info |-> info, bw |-> bw,
    currRound |-> h * GetRoundsPerSchedule(info), runs |-> <<>>]
   : <<info, bw, h>> \in Configs \X Widths \X (0..MaxHorizons)}

McfTriples(rounds) ==
  {t \in (0..(rounds - 1)) \X (0..rounds) \X (0..MaxWeight) : t[1] <= t[2]}

RECURSIVE Flatten(_)
Flatten(ts) == IF ts = <<>> THEN <<>> ELSE Head(ts) \o Flatten(Tail(ts))

\* command lines of the standalone tool: rounds packets ruType totalTones triples
McfCommandLines ==
  UNION {{<<"maximum_weighted_matching", rounds, packets, ruType, 484>> \o Flatten(ts)
          : ts \in [1..packets -> McfTriples(rounds)]}
         : <<rounds, packets, ruType>> \in
             (1..MaxMcfRounds) \X (1..MaxMcfPackets) \X (MinRuTypeIndex..4)}

McfInputs ==
  {[kind |-> "mcf", argv |-> argv, i |-> 1,
    st |-> [globalMinCost |-> 0, packetToRoundMap |-> <<>>],
    written |-> FALSE, output |-> <<>>]
   : argv \in McfCommandLines}

\* the scheduler objects are not driven while solvers run on their own
EngineParked ==
  /\ scheduler = "da"
  /\ DrrParked
  /\ m_staPacketInfo = <<>>
  /\ channelWidth = DriverChannelWidth
  /\ assertsOn = FALSE
  /\ m_currRound = 0
  /\ m_roundsPerSchedule = 0
  /\ m_hasDeadlineConstrainedTrafficStarted = FALSE
  /\ isRoundOffsetSet = FALSE
  /\ timerScheduled = FALSE
  /\ m_packetSchedule = <<>>
  /\ m_packetToRoundMap = EmptyMap
  /\ m_mpduToCurrPacketMap = EmptyMap
  /\ queue = <<>>
  /\ m_candidates = <<>>
  /\ pc = "idle"
  /\ lastGenRound = -1
  /\ generated = FALSE
  /\ decided = {}

SolverInit == EngineParked /\ bench \in (SchedulerInputs \cup McfInputs)

\* ---------------------------------------------------- solver runs: actions
\* m_packetSchedule, GetRoundsPerSchedule () and GetRusPerRound () as the
\* solver finds them: of a station set, or handed over as they are ("both")
BenchSchedule(b) ==
  IF b.kind = "both" THEN b.sched
  ELSE GeneratePacketScheduleForSetRounds(b.info, b.currRound)
BenchRounds(b) == IF b.kind = "both" THEN b.rounds ELSE GetRoundsPerSchedule(b.info)
BenchRuType(b) == GetRuTypePerRound(b.bw, GetPacketsPerSchedule(b.info))
BenchRus(b) == IF b.kind = "both" THEN b.rus ELSE GetRusPerRound(b.bw, BenchRuType(b))

\* GeneratePacketScheduleForSetRounds (); MaximumWeightedMatching ();
RunMaximumWeightedMatching ==
  /\ bench.kind \in {"scheduler", "both"}
  /\ Len(bench.runs) < MaxSolves
  /\ \E map \in MaximumWeightedMatching(BenchSchedule(bench), BenchRounds(bench),
                                         BenchRus(bench), bench.currRound) :
       bench' = [bench EXCEPT !.runs = Append(@, [backend |-> "mwm", map |-> map])]
  /\ UNCHANGED engineVars

\* GeneratePacketScheduleForSetRounds (); ILPSolver ();
RunILPSolver ==
  /\ bench.kind = "scheduler"
  /\ Len(bench.runs) < MaxSolves
  /\ \E map \in ILPSolver(BenchSchedule(bench), GetRoundsPerSchedule(bench.info),
                           bench.bw, BenchRuType(bench), bench.currRound) :
       bench' = [bench EXCEPT !.runs = Append(@, [backend |-> "ilp", map |-> map])]
  /\ UNCHANGED engineVars

\* one iteration of main's loop over the supplies 1 .. packets
McfSolve ==
  /\ bench.kind \in {"mcf", "both"}
  /\ bench.i <= McfPackets(bench.argv)
  /\ \E st \in SimpleMinCostFlowProgram(bench.st, McfRounds(bench.argv),
                                         McfPackets(bench.argv), McfRus(bench.argv),
                                         McfPacketSchedule(bench.argv), bench.i) :
       bench' = [bench EXCEPT !.st = st, !.i = @ + 1]
  /\ UNCHANGED engineVars

\* after the loop main writes packetToRoundMap to mcf.output
McfWrite ==
  /\ bench.kind \in {"mcf", "both"}
  /\ bench.i > McfPackets(bench.argv)
  /\ ~bench.written
  /\ bench' = [bench EXCEPT !.written = TRUE, !.output = bench.st.packetToRoundMap]
  /\ UNCHANGED engineVars

SolverNext == RunMaximumWeightedMatching \/ RunILPSolver \/ McfSolve \/ McfWrite

SolverSpec == SolverInit /\ [][SolverNext]_vars

\* ------------------------------------- the tool on same-round deadlines
\* the command line of the tool's usage comment: periods 1, 2, 4 with
\* penalties 5, 10, 15 over 4 rounds, every deadline the arrival round, one
\* RU per round (ruType 4)
UsageCommandLine ==
  <<"maximum_weighted_matching", 4, 7, 4, 484,
    0, 0, 5, 1, 1, 5, 2, 2, 5, 3, 3, 5, 0, 0, 10, 2, 2, 10, 0, 0, 15>>

\* every packet's deadline round is its arrival round
SameRoundDeadlines(argv) ==
  \A k \in 1..McfPackets(argv) :
    McfPacketSchedule(argv)[k][1] = McfPacketSchedule(argv)[k][2]

SameRoundInputs ==
  {b \in McfInputs : SameRoundDeadlines(b.argv)}
  \cup {[kind |-> "mcf", argv |-> UsageCommandLine, i |-> 1,
         st |-> [globalMinCost |-> 0, packetToRoundMap |-> <<>>],
         written |-> FALSE, output |-> <<>>]}

SameRoundInit == EngineParked /\ bench \in SameRoundInputs

SameRoundNext == McfSolve \/ McfWrite

SameRoundSpec == SameRoundInit /\ [][SameRoundNext]_vars

\* ------------------------------------- both backends on one input
\* the schedule whose windows, counted from round r0, are those of a command
\* line; packet k belongs to station k
ScheduleOfCommandLine(argv, r0) ==
  [k \in 1..McfPackets(argv) |->
     <<McfPacketSchedule(argv)[k][1] + r0, McfPacketSchedule(argv)[k][2] + r0,
       McfPacketSchedule(argv)[k][3], k - 1>>]

\* rounds, RUs per round, windows and penalties given to
\* MaximumWeightedMatching in a horizon that starts at r0 and, as a command
\* line, to the standalone tool
AgreementInputs ==
  {[kind |-> "both", sched |-> ScheduleOfCommandLine(argv, h * McfRounds(argv)),
    rounds |-> McfRounds(argv), rus |-> McfRus(argv),
    currRound |-> h * McfRounds(argv), runs |-> <<>>,
    argv |-> argv, i |-> 1, st |-> [globalMinCost |-> 0, packetToRoundMap |-> <<>>],
    written |-> FALSE, output |-> <<>>]
   : <<argv, h>> \in McfCommandLines \X (0..MaxHorizons)}

AgreementInit == EngineParked /\ bench \in AgreementInputs

\* the matching is solved once, then the tool is run on the same input
AgreementMatching == bench.runs = <<>> /\ RunMaximumWeightedMatching

AgreementTool == bench.runs # <<>> /\ (McfSolve \/ McfWrite)

AgreementNext == AgreementMatching \/ AgreementTool

AgreementSpec == AgreementInit /\ [][AgreementNext]_vars

\* ------------------------------------- both backends on station sets
\* the horizon of a station set that starts at round r0, with rus RUs per
\* round, given to MaximumWeightedMatching and to the standalone tool
ScenarioBench(info, rus, r0) ==
  [kind |-> "both", info |-> info,
   sched |-> GeneratePacketScheduleForSetRounds(info, r0),
   rounds |-> GetRoundsPerSchedule(info), rus |-> rus, currRound |-> r0, runs |-> <<>>,
   argv |-> <<"maximum_weighted_matching">> \o
            Tail(IlpCommandLine(GeneratePacketScheduleForSetRounds(info, r0),
                                GetRoundsPerSchedule(info),
                                CHOOSE k \in 0..(Len(splits) - 1) : splits[k + 1] = rus,
                                TotalTones(DriverChannelWidth), r0)),
   i |-> 1, st |-> [globalMinCost |-> 0, packetToRoundMap |-> <<>>],
   written |-> FALSE, output |-> <<>>]

\* one station of period 1 and deadline 5 on any number of RUs; two stations
\* of one period and one deadline and different penalties on 1 RU per round
ScenarioInputs ==
  {ScenarioBench(<< <<1, 5, w>> >>, splits[n], h)
   : <<w, n, h>> \in (0..MaxWeight) \X (1..Len(splits)) \X (0..MaxHorizons)}
  \cup
  {ScenarioBench(<< <<t[1], t[2], w[1]>>, <<t[1], t[2], w[2]>> >>, 1, h * t[1])
   : <<t, w, h>> \in
       {x \in (1..MaxPeriod) \X (0..(MaxPeriod - 1)) : x[2] < x[1]}
       \X {x \in (0..MaxWeight) \X (0..MaxWeight) : x[1] # x[2]}
       \X (0..MaxHorizons)}

ScenarioInit == EngineParked /\ bench \in ScenarioInputs

ScenarioSpec == ScenarioInit /\ [][AgreementNext]_vars

\* ------------------------------------------------------- LCM on its own
\* the while loop of LCM () run one iteration at a time on a list of periods
\* >= 1; steps counts the iterations
MaxLcmStations == 3
MaxLcmPeriod == 8

LcmInputs ==
  {[kind |-> "lcm", periods |-> ps, arr |-> ps, max_num |-> MaxOf(ps), x |-> 2,
    res |-> 1, steps |-> 0, done |-> FALSE]
   : ps \in UNION {[1..n -> 1..MaxLcmPeriod] : n \in 1..MaxLcmStations}}

LcmInit == EngineParked /\ bench \in LcmInputs

LCMStep_AlwaysAdvance(b) ==
  LET indexes == {j \in 1..Len(b.arr) : b.arr[j] % b.x = 0}
  IN IF Cardinality(indexes) >= 2
     THEN [b EXCEPT !.arr = [j \in 1..Len(b.arr) |->
                               IF j \in indexes THEN b.arr[j] \div b.x ELSE b.arr[j]],
                    !.res = b.res * b.x, !.x = b.x + 1, !.steps = b.steps + 1]
     ELSE [b EXCEPT !.x = b.x + 1, !.steps = b.steps + 1]

\* the body of the while loop
LCMStep(b) ==
  LET indexes == {j \in 1..Len(b.arr) : b.arr[j] % b.x = 0}
  IN IF Cardinality(indexes) >= 2
     THEN [b EXCEPT !.arr = [j \in 1..Len(b.arr) |->
                               IF j \in indexes THEN b.arr[j] \div b.x ELSE b.arr[j]],
                    !.res = b.res * b.x, !.steps = b.steps + 1]
     ELSE [b EXCEPT !.x = b.x + 1, !.steps = b.steps + 1]

LcmIterate ==
  /\ bench.kind = "lcm"
  /\ ~bench.done
  /\ bench.x <= bench.max_num
  /\ bench' = LCMStep(bench)
  /\ UNCHANGED engineVars

\* the loop is left: res is multiplied by the reduced elements and returned
LcmReturn ==
  /\ bench.kind = "lcm"
  /\ ~bench.done
  /\ bench.x > bench.max_num
  /\ bench' = [bench EXCEPT !.res = bench.res * Product(bench.arr), !.done = TRUE]
  /\ UNCHANGED engineVars

LcmNext == LcmIterate \/ LcmReturn

LcmSpec == LcmInit /\ [][LcmNext]_vars

\* ------------------------------------------------------ RU sizing on its own
\* GetRuTypePerRound and GetRusPerRound evaluated for a channel width and a
\* growing m_packetsPerSchedule; prev is the sizing of the smaller count
MaxSizingPackets == 20

NoSizing == [packets |-> 0, ruType |-> 0, rus |-> 0]

SizingInputs ==
  {[kind |-> "sizing", bw |-> bw, packets |-> n, ruTypes |-> {}, rus |-> 0,
    prev |-> NoSizing]
   : <<bw, n>> \in Widths \X (1..MaxSizingPackets)}

SizingInit == EngineParked /\ bench \in SizingInputs

\* GetRuTypePerRound (), as every ILPSolver of the run calls it
SizeRuType ==
  /\ bench.kind = "sizing"
  /\ bench.rus = 0
  /\ bench' = [bench EXCEPT !.ruTypes = @ \cup {GetRuTypePerRound(bench.bw, bench.packets)}]
  /\ UNCHANGED engineVars

\* GetRusPerRound (GetRuTypePerRound ())
SizeRus ==
  /\ bench.kind = "sizing"
  /\ bench.rus = 0
  /\ bench.ruTypes # {}
  /\ bench' = [bench EXCEPT !.rus = GetRusPerRound(bench.bw,
                                      GetRuTypePerRound(bench.bw, bench.packets))]
  /\ UNCHANGED engineVars

\* the same channel with more packets per schedule
SizeMorePackets ==
  /\ bench.kind = "sizing"
  /\ bench.rus # 0
  /\ \E n \in (bench.packets + 1)..MaxSizingPackets :
       bench' = [bench EXCEPT !.packets = n, !.ruTypes = {}, !.rus = 0,
                              !.prev = [packets |-> bench.packets,
                                        ruType |-> GetRuTypePerRound(bench.bw, bench.packets),
                                        rus |-> bench.rus]]
  /\ UNCHANGED engineVars

SizingNext == SizeRuType \/ SizeRus \/ SizeMorePackets

SizingSpec == SizingInit /\ [][SizingNext]_vars

\* ================================================================ properties
\* C1: after any solve (weighted matching, ILP with its roundOffset shift,
\* the standalone min-cost-flow tool) every entry p -> r of the map names a
\* packet of the schedule and has arrivalRound[p] <= r <= deadlineRound[p].
C1_WindowInvariant ==
  /\ bench.kind = "scheduler" =>
       \A n \in 1..Len(bench.runs) :
         LET sched == BenchSchedule(bench)
             m == bench.runs[n].map
         IN \A p \in DOMAIN m :
              /\ p \in PacketIndices(sched)
              /\ Entry(sched, p)[1] <= m[p]
              /\ m[p] <= Entry(sched, p)[2]
  /\ bench.kind = "mcf" =>
       \A n \in 1..Len(bench.st.packetToRoundMap) :
         LET ps == McfPacketSchedule(bench.argv)
             e == bench.st.packetToRoundMap[n]
         IN /\ e[1] \in 0..(McfPackets(bench.argv) - 1)
            /\ ps[e[1] + 1][1] <= e[2]
            /\ e[2] <= ps[e[1] + 1][2]

\* an ILP solve and a matching solve of a later horizon, the first with a
\* packet placed after the round the solve ran in
C1_Witness ==
  /\ bench.kind = "scheduler"
  /\ bench.currRound > 0
  /\ Len(bench.runs) = 2
  /\ bench.runs[1].backend = "ilp"
  /\ bench.runs[2].backend = "mwm"
  /\ \E p \in DOMAIN bench.runs[1].map : bench.runs[1].map[p] > bench.currRound
  /\ bench.runs[2].map # EmptyMap

C3_Optimality ==
  /\ bench.kind = "scheduler" =>
       \A n \in 1..Len(bench.runs) :
         MapWeight(BenchSchedule(bench), bench.runs[n].map) =
           MaxAssignmentWeight(BenchSchedule(bench), GetRoundsPerSchedule(bench.info),
                               BenchRus(bench), bench.currRound)
  /\ (bench.kind = "mcf" /\ bench.i > McfPackets(bench.argv)) =>
       LET ps == McfPacketSchedule(bench.argv)
           out == bench.st.packetToRoundMap
           best == MaxAssignmentWeight(ps, McfRounds(bench.argv), McfRus(bench.argv), 0)
       IN /\ SumOver(1..Len(out), [n \in 1..Len(out) |-> ps[out[n][1] + 1][3]]) = best
          /\ bench.st.globalMinCost = 0 - best
          /\ bench.written => bench.output = out

\* the tool wrote a result that leaves the lighter of two competing packets
\* out: three packets of penalties > 0, not all equal, fewer than three served
C3_Witness ==
  /\ bench.kind = "mcf"
  /\ bench.written
  /\ McfPackets(bench.argv) = 3
  /\ LET ps == McfPacketSchedule(bench.argv)
     IN /\ \A k \in 1..3 : ps[k][3] > 0
        /\ \E k \in 1..3 :
             /\ ps[k][3] = MaxWeight
             /\ \E n \in 1..Len(bench.output) : bench.output[n][1] = k - 1
        /\ \E k \in 1..3 :
             /\ ps[k][3] < MaxWeight
             /\ \A n \in 1..Len(bench.output) : bench.output[n][1] # k - 1
  /\ Len(bench.output) \in 1..2

\* C4: in deadline mode a station is handed to the transmission layer in
\* round r only if its pointed-to schedule entry is mapped to r, and r lies in
\* the transmitted packet's own window: generation round <= r <= generation
\* round + the station's deadline.
C4_TransmitInOwnWindow ==
  \A d \in decided :
    d.kind = "tx" =>
      /\ d.mapped = d.round
      /\ d.gen <= d.round
      /\ d.round <= d.gen + Deadline(m_staPacketInfo, d.aid)

\* C5: every packet StartNextRound generated is handed to transmission or
\* dequeued as dropped, and no schedule entry is left without a disposition:
\* once no event is pending any more (no timer, no transmit opportunity, no
\* call in progress) no packet is queued and no map entry remains.
C5_Conservation ==
  (~ENABLED Next) =>
    /\ \A i \in DOMAIN queue : queue[i] = <<>>
    /\ m_packetToRoundMap = EmptyMap

\* C6: the engine generates the schedule (and solves, and resets the
\* pointers) only in a round with currentRound % roundsPerSchedule = 0, and
\* not a second time while the round counter holds the same boundary value.
C6_GenerateOncePerHorizon ==
  [][(pc = "idle" /\ pc' = "compute" /\ generated') =>
       /\ m_currRound % m_roundsPerSchedule = 0
       /\ lastGenRound # m_currRound]_vars

\* C7: in a horizon boundary round in which the engine sees a candidate, the
\* schedule is regenerated and re-solved before any transmit/drop decision
\* of that round, whatever the map holds.
C7_RegenerateAtBoundary ==
  (/\ pc = "compute"
   /\ m_hasDeadlineConstrainedTrafficStarted
   /\ m_candidates # <<>>
   /\ m_currRound % m_roundsPerSchedule = 0)
  => lastGenRound = m_currRound

\* C8: after the first schedule generation each station's pointer lies in
\* the station's own block: start_s <= pointer_s < start_s + rounds / period_s.
C8_PointerInOwnBlock ==
  lastGenRound >= 0 =>
    \A i \in DOMAIN m_mpduToCurrPacketMap :
      LET start == NextIndex(m_staPacketInfo, m_roundsPerSchedule, i)
      IN /\ start <= m_mpduToCurrPacketMap[i]
         /\ m_mpduToCurrPacketMap[i] <
              start + (m_roundsPerSchedule \div Period(m_staPacketInfo, i))

\* C9: whenever ComputeDlMuInfo examines a candidate in deadline mode the
\* schedule entry its pointer designates exists and belongs to that station;
\* no decision is taken with a pointer that is out of sync.
C9_PointerInSync ==
  \A d \in decided :
    d.kind \in {"tx", "buffer", "drop", "abort"} =>
      /\ PointerInSchedule(m_packetSchedule, d.ptr)
      /\ d.owner = d.aid

\* C10: in deadline mode a candidate whose pointed-to index has no map entry
\* when it is examined loses exactly its head packet in that call and is not
\* in the round's transmit set, in any round.
C10_UnmappedIsDropped ==
  [][(pc = "compute" /\ m_hasDeadlineConstrainedTrafficStarted /\ isRoundOffsetSet) =>
       \A d \in decided' :
         (d.kind # "abort" /\ d.mapped = -1) =>
           /\ d.kind = "drop"
           /\ queue[d.aid] # <<>>
           /\ d.gen = Head(queue[d.aid])
           /\ queue'[d.aid] = Tail(queue[d.aid])]_vars

\* a packet dropped in a round that is no horizon boundary while another
\* station transmits in the same call
C10_Witness ==
  /\ pc = "idle"
  /\ \E d \in decided :
       /\ d.kind = "drop"
       /\ d.round % m_roundsPerSchedule # 0
  /\ \E d \in decided : d.kind = "tx"

\* C11: a ComputeDlMuInfo call in deadline mode advances a candidate's
\* pointer by exactly one when its packet is transmitted or dropped, leaves
\* pointer and map entry alone when it is buffered, and changes no pointer
\* and no map entry of any other station.
C11_DecisionFrame ==
  [][(pc = "compute" /\ m_hasDeadlineConstrainedTrafficStarted /\ isRoundOffsetSet) =>
       /\ \A d \in decided' :
            /\ d.kind \in {"tx", "drop"} =>
                 m_mpduToCurrPacketMap'[d.aid] = m_mpduToCurrPacketMap[d.aid] + 1
            /\ d.kind = "buffer" =>
                 /\ m_mpduToCurrPacketMap'[d.aid] = m_mpduToCurrPacketMap[d.aid]
                 /\ d.ptr \in DOMAIN m_packetToRoundMap'
                 /\ m_packetToRoundMap'[d.ptr] = m_packetToRoundMap[d.ptr]
       /\ \A i \in DOMAIN m_mpduToCurrPacketMap :
            (\A d \in decided' : d.aid # i \/ d.kind = "abort") =>
              m_mpduToCurrPacketMap'[i] = m_mpduToCurrPacketMap[i]
       /\ \A p \in DOMAIN m_packetToRoundMap :
            \/ /\ p \in DOMAIN m_packetToRoundMap'
               /\ m_packetToRoundMap'[p] = m_packetToRoundMap[p]
            \/ \E d \in decided' :
                 /\ d.kind = "tx"
                 /\ d.ptr = p
                 /\ PointerOwner(m_packetSchedule, p) = d.aid
       /\ DOMAIN m_packetToRoundMap' \subseteq DOMAIN m_packetToRoundMap]_vars

\* C12: the engine drops every examined candidate packet whose assigned round
\* is earlier than the current round, and every packet that was never matched.
C12_LateOrUnmatchedDropped ==
  \A d \in decided :
    (/\ d.kind \in {"tx", "buffer", "drop"}
     /\ (d.mapped = -1 \/ d.mapped < d.round))
    => d.kind = "drop"

\* C13: a StartNextRound that opens a round r below the round limit, under
\* either scheduler, emits exactly one packet for every station whose period
\* divides r and none for the others, also when r is a multiple of the
\* horizon length (the branch that emits for all stations).  A packet
\* emitted in round r is the queue entry r.
C13_EmitForDividingPeriods ==
  [][(m_currRound' = m_currRound + 1 /\ m_currRound' < RoundLimit) =>
       \A i \in Stations(m_staPacketInfo) :
         Cardinality({k \in 1..Len(queue'[i]) : queue'[i][k] = m_currRound'}) =
           (IF m_currRound' % Period(m_staPacketInfo, i) = 0 THEN 1 ELSE 0)]_vars

\* a round off the horizon boundary was opened for one station and not for
\* another
C13_Witness ==
  /\ m_currRound \in 1..(RoundLimit - 1)
  /\ m_currRound % m_roundsPerSchedule # 0
  /\ \E i, j \in Stations(m_staPacketInfo) :
       /\ m_currRound % Period(m_staPacketInfo, i) = 0
       /\ m_currRound \in Range(queue[i])
       /\ m_currRound % Period(m_staPacketInfo, j) # 0
       /\ m_currRound \notin Range(queue[j])

\* C14: under either scheduler the round counter never decreases, every
\* StartNextRound(false) adds exactly 1 to it (the DA timer event, the call
\* at the end of the DRR ComputeDlMuInfo in deadline mode), it never exceeds
\* the round limit, and once it is at the limit deadline mode is off, no
\* StartNextRound is pending, the counter stays and no queue grows.
C14_RoundCounter ==
  [][/\ m_currRound' \in {m_currRound, m_currRound + 1}
     /\ m_currRound' <= RoundLimit
     /\ (scheduler = "da" /\ pc = "idle" /\ pc' = "idle") => m_currRound' = m_currRound + 1
     /\ (scheduler = "drr" /\ pc = "compute" /\ m_hasDeadlineConstrainedTrafficStarted
         /\ m_havePacketsArrived) => m_currRound' = m_currRound + 1
     /\ m_currRound' = RoundLimit =>
          ~m_hasDeadlineConstrainedTrafficStarted' /\ ~timerScheduled'
     /\ m_currRound = RoundLimit =>
          /\ m_currRound' = RoundLimit
          /\ \A i \in DOMAIN queue : Len(queue'[i]) <= Len(queue[i])]_vars

\* a transmit opportunity was served after the counter reached the limit
C14_Witness ==
  /\ m_currRound = RoundLimit
  /\ pc = "idle"
  /\ \E d \in decided : d.round = RoundLimit /\ d.kind = "plain"

\* C15: whatever the station configuration (periods >= 1), the round counter
\* reaches the round limit: the run does not stall at an earlier round, also
\* when no station's period divides the round index and the transmit queue
\* is empty.  Stated for the DRR scheduler, whose rounds are opened by
\* ComputeDlMuInfo: below the limit the scheduler is either answering a
\* transmit opportunity or a frame is queued that will bring the next one.
C15_NeverStalls ==
  (scheduler = "drr" /\ m_currRound < RoundLimit) =>
    (pc = "compute" \/ \E i \in DOMAIN queue : queue[i] # <<>>)

\* C16: in a DRR round r of deadline mode the packet at the head of a
\* candidate's queue is dequeued as dropped if and only if the candidate was
\* pending (not served) in r and r is the packet's own deadline round, its
\* generation round plus its station's deadline; the packet of a candidate
\* granted an RU in r is not dropped in r.
C16_DropIffPendingAtDeadline ==
  \A d \in decided :
    (scheduler = "drr" /\ d.kind \in {"tx", "buffer", "drop"}) =>
      /\ d.kind = "drop" <=>
           (d.pending /\ d.round = d.gen + Deadline(m_staPacketInfo, d.aid))
      /\ d.kind = "tx" <=> ~d.pending

\* a round dropped the packet of one pending candidate, buffered that of
\* another or served a third
C16_Witness ==
  /\ scheduler = "drr"
  /\ \E d \in decided : d.kind = "drop" /\ d.round = d.gen + Deadline(m_staPacketInfo, d.aid)
  /\ \E d \in decided : d.kind = "tx"

\* C17: a DRR ComputeDlMuInfo of deadline mode splits the candidates, which
\* stand in station-list order, into a served prefix of at least one and at
\* most as many candidates as the channel has RUs and a pending suffix: the
\* two are disjoint and together are the candidate list.  Only the served
\* candidates are handed to the transmission: their head packet leaves the
\* queue as transmitted, that of a pending candidate stays unless dropped.
C17_ServedPrefixPendingSuffix ==
  [][(scheduler = "drr" /\ pc = "compute" /\ m_hasDeadlineConstrainedTrafficStarted
      /\ m_havePacketsArrived) =>
       /\ m_candidates' \o m_pendingCandidates' = m_candidates
       /\ Range(m_candidates') \cap Range(m_pendingCandidates') = {}
       /\ Len(m_candidates') \in 1..GetRusPerRound(channelWidth, RU_26_TONE)
       /\ \A a, b \in 1..Len(m_candidates) :
            a < b => \E k, l \in 1..Len(m_staList) :
                       /\ k < l
                       /\ m_staList[k].aid = m_candidates[a]
                       /\ m_staList[l].aid = m_candidates[b]
       /\ {d.aid : d \in {e \in decided' : e.kind = "tx"}} = Range(m_candidates')
       /\ \A i \in Range(m_candidates') :
            SubSeq(queue'[i], 1, Len(queue[i]) - 1) = Tail(queue[i])
       /\ \A d \in decided' :
            d.kind = "buffer" =>
              SubSeq(queue'[d.aid], 1, Len(queue[d.aid])) = queue[d.aid]]_vars

\* a round served some candidates and left another pending
C17_Witness ==
  /\ scheduler = "drr"
  /\ pc = "idle"
  /\ m_candidates # <<>>
  /\ m_pendingCandidates # <<>>
  /\ \E d \in decided : d.kind = "tx"

\* C18: for a supported channel width (20, 40) one RU type is selected for
\* a packetsPerSchedule, the RUs per round times the tone count of the type
\* never exceed the channel's total tones (242 at 20 MHz, 484 at 40 MHz),
\* and with more packets per schedule the tone count never increases and the
\* RUs per round never decrease.
C18_SizingMonotone ==
  bench.kind = "sizing" =>
    /\ Cardinality(bench.ruTypes) <= 1
    /\ bench.ruTypes \subseteq
         {RU_26_TONE, RU_52_TONE, RU_106_TONE, RU_242_TONE, RU_484_TONE}
    /\ bench.rus # 0 =>
         /\ bench.rus >= 1
         /\ \A t \in bench.ruTypes :
              /\ bench.rus * t <= (IF bench.bw = 20 THEN RU_242_TONE ELSE RU_484_TONE)
              /\ bench.prev # NoSizing =>
                   /\ bench.prev.packets < bench.packets
                   /\ t <= bench.prev.ruType
                   /\ bench.rus >= bench.prev.rus

\* more packets per schedule took a smaller RU type and more RUs per round
C18_Witness ==
  /\ bench.kind = "sizing"
  /\ bench.rus # 0
  /\ bench.prev # NoSizing
  /\ \E t \in bench.ruTypes : t < bench.prev.ruType
  /\ bench.rus > bench.prev.rus

\* C19: with a channel width other than 20 and 40, GetRuTypePerRound,
\* GetRusPerRound and GetRuTypeIndex return no value, no schedule is solved
\* (no packet-to-round map, no pointers), and the engine examines no
\* candidate in deadline mode: it is stopped by the configuration error
\* before it decides anything there.
C19_FatalBeforeDecision ==
  channelWidth \notin Widths =>
    /\ \A n \in 1..MaxSizingPackets : GetRuTypePerRound(channelWidth, n) = FATAL
    /\ \A t \in {RU_26_TONE, RU_52_TONE, RU_106_TONE, RU_242_TONE, RU_484_TONE} :
         /\ GetRusPerRound(channelWidth, t) = FATAL
         /\ GetRuTypeIndex(channelWidth, t) = FATAL
    /\ m_packetToRoundMap = EmptyMap
    /\ m_mpduToCurrPacketMap = EmptyMap
    /\ \A d \in decided : d.kind = "plain"

\* C20: a configuration with a station of period 0 is rejected as a fatal
\* configuration error before any round executes: the start-up ends in the
\* fatal error and nowhere else, and no horizon length is computed from it.
C20_ZeroPeriodRejected ==
  HasZeroPeriod(m_staPacketInfo) => pc \in {"start", "fatal"}

\* C21: when the external solver fails (non-zero exit; result file missing,
\* malformed, cut short or not rewritten) the engine records a fault for the
\* horizon: the map takes no entry from the file the failed run left, and
\* the horizon is not continued with that map (no ComputeDlMuInfo follows,
\* nothing is decided from it).
C21_SolverFaultRecorded ==
  (bench.kind = "host" /\ bench.failed) =>
    /\ pc = "fault"
    /\ m_packetToRoundMap = EmptyMap
    /\ decided = {}

\* C22: on one input (rounds, RUs per round, packet windows, penalties) the
\* map built by MaximumWeightedMatching, the map read from the ILP and the
\* result the standalone min-cost-flow tool writes serve packets of the same
\* total penalty, and the tool's result, with the round offset added, is a
\* map the engine can take: packets of the schedule, inside their windows,
\* at most RUs-per-round of them in a round.
C22_BackendAgreement ==
  (bench.kind = "both" /\ bench.written) =>
    LET sched == BenchSchedule(bench)
        out == bench.output
        mcfMap == ReadIlpOutput(out, bench.currRound, EmptyMap)
    IN /\ Cardinality(DOMAIN mcfMap) = Len(out)
       /\ mcfMap \in Assignments(sched, BenchRounds(bench), BenchRus(bench),
                                  bench.currRound)
       /\ \A n \in 1..Len(bench.runs) :
            MapWeight(sched, bench.runs[n].map) = MapWeight(sched, mcfMap)

\* the tool and the matching served packets of the same positive total
\* penalty with different maps, in a horizon that does not start at round 0
\* and leaves a packet with a penalty unserved
C22_Witness ==
  /\ bench.kind = "both"
  /\ bench.written
  /\ bench.currRound > 0
  /\ \E n \in 1..Len(bench.runs) :
       /\ bench.runs[n].backend = "mwm"
       /\ bench.runs[n].map # ReadIlpOutput(bench.output, bench.currRound, EmptyMap)
       /\ MapWeight(BenchSchedule(bench), bench.runs[n].map) > 0
       /\ \E p \in PacketIndices(BenchSchedule(bench)) :
            /\ Entry(BenchSchedule(bench), p)[3] > 0
            /\ p \notin DOMAIN bench.runs[n].map

\* C23: a call that generates the schedule in round r0, under either
\* scheduler, leaves exactly roundsPerSchedule / period entries per station,
\* station after station in station-id order, the k-th of a station being
\* (r0 + k * period, r0 + k * period + deadline, penalty, station), k counted
\* from 0: packetsPerSchedule entries in all, each with arrival round <=
\* deadline round.  The schedule depends on nothing else: a generation in the
\* round of the one before it leaves the schedule as it was.
C23_ScheduleIsFunctionOfInputs ==
  [][generated' =>
       LET info == m_staPacketInfo
           r0 == lastGenRound'
           n == [i \in Stations(info) |-> m_roundsPerSchedule \div Period(info, i)]
           first == [i \in Stations(info) |-> SumOver(0..(i - 1), n)]
       IN /\ r0 = m_currRound
          /\ Len(m_packetSchedule') = SumOver(Stations(info), n)
          /\ \A i \in Stations(info) :
               \A k \in 0..(n[i] - 1) :
                 m_packetSchedule'[first[i] + k + 1] =
                   <<r0 + k * Period(info, i),
                     r0 + k * Period(info, i) + Deadline(info, i),
                     Penalty(info, i), i>>
          /\ \A p \in 1..Len(m_packetSchedule') :
               m_packetSchedule'[p][1] <= m_packetSchedule'[p][2]
          /\ lastGenRound = r0 => m_packetSchedule' = m_packetSchedule]_vars

\* a schedule generated in a later horizon for two stations of different
\* periods, one of them with a deadline after its arrival
C23_Witness ==
  /\ generated
  /\ lastGenRound > 0
  /\ Len(m_packetSchedule) >= 3
  /\ \E i, j \in Stations(m_staPacketInfo) :
       Period(m_staPacketInfo, i) # Period(m_staPacketInfo, j)
  /\ \E p \in 1..Len(m_packetSchedule) : m_packetSchedule[p][1] < m_packetSchedule[p][2]

\* C24: for a non-empty list of periods >= 1 the loop of LCM () ends (it
\* makes no more iterations than the largest period plus the sum of the
\* periods, and is then left) and returns the least common multiple: the
\* smallest number >= 1 that every period divides.  GetRoundsPerSchedule of
\* either scheduler, for stations with these periods, is that number.
C24_LcmIsLeastCommonMultiple ==
  bench.kind = "lcm" =>
    LET ps == bench.periods
        info == [j \in 1..Len(ps) |-> <<ps[j], 0, 0>>]
        Common(m) == \A j \in 1..Len(ps) : m % ps[j] = 0
    IN /\ bench.steps <= MaxOf(ps) + SumOver(1..Len(ps), ps)
       /\ \A j \in 1..Len(ps) : bench.arr[j] >= 1
       /\ bench.done =>
            /\ bench.res >= 1
            /\ Common(bench.res)
            /\ \A m \in 1..(bench.res - 1) : ~Common(m)
            /\ GetRoundsPerSchedule(info) = bench.res
            /\ DrrGetRoundsPerSchedule(info) = bench.res

\* LCM returned for three periods of which two share a factor twice and the
\* third is coprime to both: the result is neither the largest period nor
\* the product, and a factor was divided out more than once
C24_Witness ==
  /\ bench.kind = "lcm"
  /\ bench.done
  /\ Len(bench.periods) = 3
  /\ bench.res > MaxOf(bench.periods)
  /\ bench.res * 4 <= Product(bench.periods)
  /\ bench.steps > MaxOf(bench.periods)

\* C25: when every packet's deadline is its arrival round, the result the
\* tool writes maps, in each round of the horizon, exactly min(RUs per round,
\* arrivals of the round) packets, and they are the highest-penalty arrivals
\* of that round; for periods 1, 2, 4 with penalties 5, 10, 15 and 1 RU per
\* round over 4 rounds the packet of the penalty-15 station is the one
\* mapped to round 0.
C25_MapsMinOfRusAndArrivals ==
  (bench.kind = "mcf" /\ bench.written /\ SameRoundDeadlines(bench.argv)) =>
    LET ps == McfPacketSchedule(bench.argv)
        out == bench.output
    IN /\ \A r \in 0..(McfRounds(bench.argv) - 1) :
            LET arrivals == {k \in 1..Len(ps) : ps[k][1] = r}
                mapped == {k \in 1..Len(ps) : \E n \in 1..Len(out) : out[n] = <<k - 1, r>>}
                least == IF McfRus(bench.argv) <= Cardinality(arrivals)
                         THEN McfRus(bench.argv) ELSE Cardinality(arrivals)
            IN /\ mapped \subseteq arrivals
               /\ Cardinality(mapped) = least
               /\ \A k \in mapped : \A l \in arrivals \ mapped : ps[k][3] >= ps[l][3]
       /\ bench.argv = UsageCommandLine =>
            \A n \in 1..Len(out) : out[n][2] = 0 => out[n][1] = 6

\* C26: for a single station with period 1, deadline 5 and any penalty, with
\* at least 1 RU per round, the packet of the horizon is mapped to a round by
\* the matching and by the tool, in every horizon: none is left to be
\* dropped.
C26_SingleStationAlwaysMapped ==
  (bench.kind = "both" /\ bench.written /\ Len(bench.info) = 1) =>
    /\ \A n \in 1..Len(bench.runs) :
         DOMAIN bench.runs[n].map = PacketIndices(bench.sched)
    /\ {bench.output[n][1] : n \in 1..Len(bench.output)} = PacketIndices(bench.sched)

\* C27 as stated: for two stations with one period and one deadline and
\* different penalties on 1 RU per round, in every horizon every packet of
\* the higher-penalty station is mapped and no packet of the lower-penalty
\* station is, by the matching and by the tool.
C27_HigherMappedLowerDropped ==
  (bench.kind = "both" /\ bench.written /\ Len(bench.info) = 2) =>
    LET high == IF Penalty(bench.info, 0) > Penalty(bench.info, 1) THEN 0 ELSE 1
        ofHigh == {p \in PacketIndices(bench.sched) : Entry(bench.sched, p)[4] = high}
    IN /\ \A n \in 1..Len(bench.runs) : DOMAIN bench.runs[n].map = ofHigh
       /\ {bench.output[n][1] : n \in 1..Len(bench.output)} = ofHigh

\* C27, amended: for two stations with one period, deadline 0 and different
\* penalties on 1 RU per round, in every horizon the packet of the
\* higher-penalty station is mapped, to its arrival round, and the packet of
\* the lower-penalty station is left unmapped, by the matching and by the
\* tool.
C27_HigherMappedLowerDroppedAtDeadlineZero ==
  (bench.kind = "both" /\ bench.written /\ Len(bench.info) = 2
   /\ Deadline(bench.info, 0) = 0) =>
    LET high == IF Penalty(bench.info, 0) > Penalty(bench.info, 1) THEN 0 ELSE 1
        ofHigh == {p \in PacketIndices(bench.sched) : Entry(bench.sched, p)[4] = high}
    IN /\ Cardinality(ofHigh) = 1
       /\ \A n \in 1..Len(bench.runs) :
            /\ DOMAIN bench.runs[n].map = ofHigh
            /\ \A p \in ofHigh : bench.runs[n].map[p] = Entry(bench.sched, p)[1]
       /\ Len(bench.output) = 1
       /\ \A p \in ofHigh :
            bench.output[1] = <<p, Entry(bench.sched, p)[1] - bench.currRound>>

\* in a horizon after the first, of period 2, the second station has the
\* higher penalty and the first one a penalty too: only the packet of the
\* second station is in the matching and in the tool's result
C27_Witness ==
  /\ bench.kind = "both"
  /\ bench.written
  /\ Len(bench.info) = 2
  /\ Deadline(bench.info, 0) = 0
  /\ Period(bench.info, 0) = 2
  /\ bench.currRound > 0
  /\ Penalty(bench.info, 0) > 0
  /\ Penalty(bench.info, 1) > Penalty(bench.info, 0)
  /\ DOMAIN bench.runs[1].map = {1}
  /\ bench.output = << <<1, 0>> >>

C29_MapOfOneHorizon ==
  [][/\ (pc = "idle" /\ pc' = "compute" /\ generated') =>
          /\ m_packetToRoundMap' \in
               ILPSolver(m_packetSchedule', m_roundsPerSchedule, channelWidth,
                         GetRuTypePerRound(channelWidth,
                                           GetPacketsPerSchedule(m_staPacketInfo)),
                         lastGenRound')
          /\ lastGenRound' = m_currRound
     /\ \A p \in DOMAIN m_packetToRoundMap' :
          /\ p \in PacketIndices(m_packetSchedule')
          /\ m_packetToRoundMap'[p] \in
               lastGenRound'..(lastGenRound' + m_roundsPerSchedule - 1)]_vars

\* C30: for one station set and channel width, after every whole number of
\* horizons that both runs completed, the DA run has dropped no more packets
\* of the highest-penalty stations than the DRR run, and no larger
\* penalty-weighted total.
C30_DaDropsNoMoreThanDrr ==
  (bench.kind = "experiment" /\ scheduler = "da" /\ ExperimentCollected) =>
    \A k \in 1..MaxCompared :
      LET r == k * m_roundsPerSchedule
          da == {d \in bench.da : d[3] < r}
          drr == {d \in bench.drr : d[3] < r}
          top == {i \in Stations(m_staPacketInfo) :
                    \A j \in Stations(m_staPacketInfo) :
                      Penalty(m_staPacketInfo, j) <= Penalty(m_staPacketInfo, i)}
          total(drops) == SumOver(drops, [d \in drops |-> Penalty(m_staPacketInfo, d[1])])
      IN (r <= m_currRound /\ r <= bench.drrRounds) =>
           /\ Cardinality({d \in da : d[1] \in top})
                <= Cardinality({d \in drr : d[1] \in top})
           /\ total(da) <= total(drr)

\* C31: in deadline mode the stations ComputeDlMuInfo hands to the
\* transmission in a round are at most rusPerRound (for the RU type of
\* GetRuTypePerRound), each station is in the set once, and the k-th of them
\* takes the k-th RU of that type, so the RU iterator stays inside the
\* rusPerRound RUs of the type.
C31_TransmitSetFitsRus ==
  LET tx == {d \in decided : d.kind = "tx"}
      ruType == GetRuTypePerRound(channelWidth, GetPacketsPerSchedule(m_staPacketInfo))
  IN (scheduler = "da" /\ pc = "idle" /\ tx # {}) =>
       /\ Cardinality(tx) = Cardinality({d.aid : d \in tx})
       /\ Cardinality(tx) <= GetRusPerRound(channelWidth, ruType)

\* C32 as stated: after the program name the standalone solver's arguments
\* are rounds, packets, ruType, totalTones, supplyFlow and then the triples,
\* so packet k is read from the three arguments that follow those five, at
\* 6 + 3k .. 8 + 3k, and they are (arrival - r0, deadline - r0, penalty) of the
\* engine's packet k.
C32_TriplesAfterFiveArguments ==
  (bench.kind = "both" /\ "info" \in DOMAIN bench) =>
    \A k \in PacketIndices(bench.sched) :
      LET at(n) == IF n + 1 <= Len(bench.argv) THEN Argv(bench.argv, n) ELSE -1
      IN /\ McfPacketSchedule(bench.argv)[k + 1]
              = <<at(6 + 3 * k), at(7 + 3 * k), at(8 + 3 * k)>>
         /\ <<at(6 + 3 * k), at(7 + 3 * k), at(8 + 3 * k)>>
              = <<Entry(bench.sched, k)[1] - bench.currRound,
                  Entry(bench.sched, k)[2] - bench.currRound,
                  Entry(bench.sched, k)[3]>>

\* C32, amended: after the program name the arguments are rounds, packets,
\* ruType, totalTones and then the triples (no supplyFlow argument: main
\* tries every supply 1 .. packets itself); packet k is read from the
\* arguments 5 + 3k .. 7 + 3k, and on the command line the engine serialises
\* these are (arrival - r0, deadline - r0, penalty) of the engine's packet k.
C32_TriplesAfterFourArguments ==
  (bench.kind = "both" /\ "info" \in DOMAIN bench) =>
    /\ McfRounds(bench.argv) = GetRoundsPerSchedule(bench.info)
    /\ McfPackets(bench.argv) = Len(bench.sched)
    /\ Len(bench.argv) = 5 + 3 * Len(bench.sched)
    /\ \A k \in PacketIndices(bench.sched) :
         /\ McfPacketSchedule(bench.argv)[k + 1]
              = <<Argv(bench.argv, 5 + 3 * k), Argv(bench.argv, 6 + 3 * k),
                  Argv(bench.argv, 7 + 3 * k)>>
         /\ McfPacketSchedule(bench.argv)[k + 1]
              = <<Entry(bench.sched, k)[1] - bench.currRound,
                  Entry(bench.sched, k)[2] - bench.currRound,
                  Entry(bench.sched, k)[3]>>

\* the tool ran to the end on a two-packet horizon that starts after round 0
C32_Witness ==
  /\ bench.kind = "both" /\ "info" \in DOMAIN bench
  /\ bench.written
  /\ bench.output # <<>>
  /\ bench.currRound > 0
  /\ Len(bench.sched) >= 2
  /\ Entry(bench.sched, 1)[3] # Entry(bench.sched, 0)[3]

\* C33: every call of SimpleMinCostFlowProgram whose result is kept leaves in
\* packetToRoundMap exactly one <<packetIndex, roundIndex>> entry for every
\* packet that an optimal flow of that supply carries, whatever the penalties
\* (0 included), no packet twice, and no entry for any other packet; and the
\* lines main writes to mcf.output are these entries.
C33_OutputIsRetainedFlow ==
  [][bench.kind = "mcf" =>
       LET rounds == McfRounds(bench.argv)
           packets == McfPackets(bench.argv)
           rus == McfRus(bench.argv)
           ps == McfPacketSchedule(bench.argv)
           flows == {m \in MatchingsOf(McfArcs(rounds, packets, rus, ps)) :
                       Cardinality(DOMAIN m) = bench.i}
           Cost(m) == SumOver(DOMAIN m, [t \in DOMAIN m |-> 0 - ps[t][3]])
           lines == bench'.st.packetToRoundMap
       IN /\ bench'.st # bench.st =>
               \E m \in flows :
                 /\ \A f \in flows : Cost(m) <= Cost(f)
                 /\ Cost(m) = bench'.st.globalMinCost
                 /\ Len(lines) = Cardinality(DOMAIN m)
                 /\ Range(lines) = {<<t - 1, (m[t] - packets - 1) \div rus>> : t \in DOMAIN m}
          /\ (bench'.written /\ ~bench.written) => bench'.output = bench.st.packetToRoundMap
    ]_vars

\* the tool wrote its file for packets with and without a penalty, and left
\* a packet out
C33_Witness ==
  /\ bench.kind = "mcf"
  /\ bench.written
  /\ bench.output # <<>>
  /\ Len(bench.output) < McfPackets(bench.argv)
  /\ \E k \in 1..McfPackets(bench.argv) : McfPacketSchedule(bench.argv)[k][3] = 0
  /\ \E k \in 1..McfPackets(bench.argv) : McfPacketSchedule(bench.argv)[k][3] > 0

\* C34: whenever ComputeDlMuInfo is about to run its deadline-mode branch
\* (traffic started and isRoundOffsetSet), a packet schedule has been
\* generated and m_mpduToCurrPacketMap holds a pointer for every station.
C34_GeneratedBeforeDeadlineBranch ==
  (/\ scheduler = "da"
   /\ pc = "compute"
   /\ m_hasDeadlineConstrainedTrafficStarted
   /\ isRoundOffsetSet) =>
    /\ lastGenRound >= 0
    /\ m_packetSchedule # <<>>
    /\ DOMAIN m_mpduToCurrPacketMap = Stations(m_staPacketInfo)

\* C35: for every RU type GetRuTypePerRound selects, at 20 and at 40 MHz,
\* the capacity the solver takes from splits[] at the index GetRuTypeIndex
\* passes is the number of RUs GetRusPerRound gives the engine per round.
C35_SolverCapacityIsRusPerRound ==
  (bench.kind = "sizing" /\ bench.rus # 0) =>
    splits[GetRuTypeIndex(bench.bw, GetRuTypePerRound(bench.bw, bench.packets)) + 1]
      = bench.rus

\* C36: with the engine's own sizing and packetsPerSchedule <= 9 at 20 MHz,
\* <= 18 at 40 MHz, rusPerRound >= packetsPerSchedule; with positive
\* penalties the solve of a horizon then maps every packet of the schedule to
\* a round of its window, and ComputeDlMuInfo drops no packet for want of a
\* map entry.
C36_NoPacketRejected ==
  LET pps == GetPacketsPerSchedule(m_staPacketInfo)
      ruType == GetRuTypePerRound(channelWidth, pps)
  IN (/\ scheduler = "da"
      /\ bench.kind = "none"
      /\ pps <= (IF channelWidth = 20 THEN 9 ELSE 18)
      /\ \A i \in Stations(m_staPacketInfo) : Penalty(m_staPacketInfo, i) > 0) =>
       /\ GetRusPerRound(channelWidth, ruType) >= pps
       /\ (generated /\ pc = "compute") =>
            /\ DOMAIN m_packetToRoundMap = PacketIndices(m_packetSchedule)
            /\ \A p \in DOMAIN m_packetToRoundMap :
                 /\ Entry(m_packetSchedule, p)[1] <= m_packetToRoundMap[p]
                 /\ m_packetToRoundMap[p] <= Entry(m_packetSchedule, p)[2]
       /\ \A d \in decided : d.kind # "drop"

\* C37: under DRR, every station's deadline being smaller than its period, a
\* packet is handed to the transmission in no round later than its own
\* deadline round (generation round + deadline), and when a station's next
\* period starts its previous packet is queued no more: a queue never holds
\* two packets, nor a packet whose deadline round has passed.
C37_DrrNeverLate ==
  scheduler = "drr" =>
    /\ \A d \in decided :
         d.kind \in {"tx", "plain"} =>
           d.round <= d.gen + Deadline(m_staPacketInfo, d.aid)
    /\ \A i \in DOMAIN queue :
         /\ Len(queue[i]) <= 1
         /\ \A n \in 1..Len(queue[i]) :
              m_currRound <= queue[i][n] + Deadline(m_staPacketInfo, i)

\* a packet that waited as a pending candidate was sent in its deadline round
C37_Witness ==
  /\ scheduler = "drr"
  /\ \E d \in decided :
       /\ d.kind = "tx"
       /\ d.round > d.gen
       /\ d.round = d.gen + Deadline(m_staPacketInfo, d.aid)
  /\ \E i \in DOMAIN queue : queue[i] # <<>>

====
